---- MODULE Spec2Model ----
(***************************************************************************)
(* Git Gallery: procedural museum layout, avatar movement with circle-vs-  *)
(* box collision, room locality, lazy content loading and hash routing.    *)
(*                                                                         *)
(* Arithmetic is fixed point.  Lengths are in 1/10000 of a world unit      *)
(* (0.35 is 3500), velocities in 1/1000 unit per second, frame times in    *)
(* milliseconds.  Rounding is to nearest, so every quantity is within one  *)
(* fixed-point step of the floating-point value the program computes.      *)
(***************************************************************************)
EXTENDS Integers, Sequences, FiniteSets, TLC

VARIABLES
  phase,        \* "boot" before init() has run, "running" after
  cfg,          \* CONFIG.museum as passed to buildMuseum
  repos,        \* the ordered item list returned by fetchAllData
  roomMeta,     \* one record per room, in input order
  wallBoxes,    \* collision AABBs, in scene traversal order
  pos,          \* controls.getObject().position
  velocity,     \* smoothed velocity, in the camera's local frame
  yaw,          \* camera yaw in quarter turns (0 faces -z, 3 faces +x)
  isLocked,     \* controls.isLocked
  currentRoom,  \* index into roomMeta, 0 for null
  hash,         \* window.location.hash, a sequence of characters
  loadStarts,   \* per room: how many times loadRoomContent was entered
  frames,       \* number of locked frames run so far
  router,       \* last state serialized by setHash / last parseHash result
  sizing,       \* inputs and outputs of the room sizing policy
  probe,        \* input and output of an isolated getPlayerRoom call
  directory,    \* isDirectoryVisible(): the room directory overlay is shown
  path,         \* positions before and after each substep of the last
                \* frame that moved the avatar, cleared by a teleport
  resolver,     \* input and outputs of isolated resolveCollisions calls
  trace,        \* the steps of loop() run so far in the current frame
  isMobile      \* isTouchDevice(): touch controls instead of pointer lock

vars == <<phase, cfg, repos, roomMeta, wallBoxes, pos, velocity, yaw,
          isLocked, currentRoom, hash, loadStarts, frames, router, sizing,
          probe, directory, path, resolver, trace, isMobile>>

----------------------------------------------------------------------------
(* Bounds of the model *)

MaxRooms == 3
MaxFrames == 2
MaxIdLen == 3

----------------------------------------------------------------------------
(* Program constants *)

PLAYER_RADIUS == 3500
\* a doorway narrower than the avatar
NarrowDoor == 2 * PLAYER_RADIUS - 1000

INNER_DOOR_W == 26000
INNER_DOOR_H == 32000
WALL_T == 2000

CONFIG ==
  [ player |-> [ height |-> 17000, speed |-> 6000, runMultiplier10 |-> 22,
                 damping |-> 12 ],
    roomHeight |-> 65000,
    lobby  |-> [ cubeSize |-> 3000, cubeGap |-> 700, lobbyCenterZ |-> 90000 ],
    museum |-> [ hallWidth |-> 40000, hallLength |-> 100000,
                 roomDepth |-> 100000, baseRoomWidth |-> 100000 ] ]

----------------------------------------------------------------------------
(* Arithmetic helpers *)

Abs(n) == IF n < 0 THEN -n ELSE n
Min(a, b) == IF a < b THEN a ELSE b
Max(a, b) == IF a > b THEN a ELSE b

\* a / b rounded to the nearest integer, for b > 0
RoundDiv(a, b) == (2 * a + b) \div (2 * b)

RECURSIVE SqrtSearch(_, _, _)
SqrtSearch(n, lo, hi) ==
  IF lo >= hi THEN lo
  ELSE LET mid == (lo + hi + 1) \div 2
       IN  IF mid * mid <= n THEN SqrtSearch(n, mid, hi)
           ELSE SqrtSearch(n, lo, mid - 1)

\* Math.sqrt on a squared distance below radius^2: floor of the root
Sqrt(n) == SqrtSearch(n, 0, PLAYER_RADIUS)

----------------------------------------------------------------------------
(* Room sizing policy: museum.js, buildMuseum, stars / widthMult / rw *)

\* Math.log1p(s) * 10000 at the popularity values the model draws from
Log1pTable ==
  [ s \in {0, 1, 3, 50, 1000, 30000, 100000} |->
      CASE s = 0      -> 0
        [] s = 1      -> 6931
        [] s = 3      -> 13863
        [] s = 50     -> 39318
        [] s = 1000   -> 69088
        [] s = 30000  -> 103090
        [] s = 100000 -> 115129 ]

\* A JavaScript number: finite (kind "num", value v), -Infinity or NaN
Num(v) == [kind |-> "num", v |-> v]
NegInf == [kind |-> "ninf", v |-> 0]
NaN == [kind |-> "nan", v |-> 0]

\* Math.log1p: -Infinity at -1, NaN below -1
log1p(s) ==
  IF s < -1 THEN NaN
  ELSE IF s = -1 THEN NegInf
  ELSE Num(Log1pTable[s])

\* repo.stargazers_count || 0 : undefined and 0 are falsy, any other number
\* (negative ones included) is kept
starsOf(repo) == IF repo.hasStars /\ repo.stargazers_count # 0
                 THEN repo.stargazers_count ELSE 0

\* Math.min(2.5, 1 + Math.log1p(stars) * 0.15), scaled by 10000
widthMult(stars) ==
  LET l == log1p(stars)
  IN  IF l.kind = "num" THEN Num(Min(25000, 10000 + RoundDiv(l.v * 15, 100)))
      ELSE l

\* rw = baseRoomWidth * widthMult
roomWidth(stars, baseRoomWidth) ==
  LET m == widthMult(stars)
  IN  IF m.kind = "num" THEN Num(RoundDiv((baseRoomWidth \div 100) * m.v, 100))
      ELSE m

----------------------------------------------------------------------------
(* Structural elements.  A mesh is the horizontal projection of a box-like  *)
(* scene object in world space together with its userData.isWall tag.      *)

Mesh(cx, cz, w, d, isWall, tag, room) ==
  [ minX |-> cx - w \div 2, maxX |-> cx + w \div 2,
    minZ |-> cz - d \div 2, maxZ |-> cz + d \div 2,
    isWall |-> isWall, tag |-> tag, room |-> room ]

\* addBox: a box mesh tagged as a wall, placed relative to its parent group
addBox(px, pz, w, d, x, z, tag, room) ==
  Mesh(px + x, pz + z, w, d, TRUE, tag, room)

RECURSIVE Concat(_)
Concat(ss) == IF ss = <<>> THEN <<>> ELSE Head(ss) \o Concat(Tail(ss))

\* Array.prototype.sort((a, b) => b.zStart - a.zStart): stable, descending
RECURSIVE InsertDesc(_, _)
InsertDesc(o, sorted) ==
  IF sorted = <<>> THEN <<o>>
  ELSE IF Head(sorted).zStart >= o.zStart
       THEN <<Head(sorted)>> \o InsertDesc(o, Tail(sorted))
       ELSE <<o>> \o sorted

RECURSIVE SortDesc(_)
SortDesc(s) ==
  IF s = <<>> THEN <<>>
  ELSE InsertDesc(s[Len(s)], SortDesc(SubSeq(s, 1, Len(s) - 1)))

\* a mutation that starts the alternation on the other side
sideOfFlipped(i) == IF i % 2 = 0 THEN -1 ELSE 1

\* side of slot i (0-based): i % 2 === 0 ? 1 : -1
sideOf(i) == IF i % 2 = 0 THEN 1 ELSE -1
slotZOf(i, hallLength) == -((i + 1) * hallLength)

----------------------------------------------------------------------------
(* buildHallwaySideWalls *)

\* the door openings of one corridor side, sorted by descending zStart
openingsOf(n, side, hallLength, rd) ==
  LET all == [ k \in 1..n |->
                 [ zStart |-> slotZOf(k - 1, hallLength) + rd \div 2,
                   zEnd   |-> slotZOf(k - 1, hallLength) - rd \div 2,
                   side   |-> sideOf(k - 1) ] ]
      IsMine(o) == o.side = side
  IN  SortDesc(SelectSeq(all, IsMine))

addHallWallSeg(x, len, centerZ2) ==
  [ minX |-> x - WALL_T \div 2, maxX |-> x + WALL_T \div 2,
    minZ |-> (centerZ2 - len) \div 2, maxZ |-> (centerZ2 + len) \div 2,
    isWall |-> TRUE, tag |-> "hall", room |-> 0 ]

\* the cursor walk over the sorted openings; a mutation that forgets to
\* advance the cursor past the opening
RECURSIVE hallSegsNoAdvance(_, _, _, _)
hallSegsNoAdvance(openings, zCursor, wx, hallLen) ==
  IF openings = <<>>
  THEN LET finalLen == Abs(zCursor - (-hallLen))
       IN  IF finalLen > 500
           THEN <<addHallWallSeg(wx, finalLen, zCursor + (-hallLen))>>
           ELSE <<>>
  ELSE LET opening == Head(openings)
           segLen == Abs(zCursor - opening.zStart)
           seg == IF segLen > 500
                  THEN <<addHallWallSeg(wx, segLen, zCursor + opening.zStart)>>
                  ELSE <<>>
       IN  seg \o hallSegsNoAdvance(Tail(openings), opening.zStart, wx, hallLen)

RECURSIVE hallSegs(_, _, _, _)
hallSegs(openings, zCursor, wx, hallLen) ==
  IF openings = <<>>
  THEN LET finalLen == Abs(zCursor - (-hallLen))
       IN  IF finalLen > 500
           THEN <<addHallWallSeg(wx, finalLen, zCursor + (-hallLen))>>
           ELSE <<>>
  ELSE LET opening == Head(openings)
           segLen == Abs(zCursor - opening.zStart)
           seg == IF segLen > 500
                  THEN <<addHallWallSeg(wx, segLen, zCursor + opening.zStart)>>
                  ELSE <<>>
       IN  seg \o hallSegs(Tail(openings), opening.zEnd, wx, hallLen)

buildHallwaySideWalls(n, hallWidth, hallLength, rd, hallLen) ==
  hallSegs(openingsOf(n, 1, hallLength, rd), 0, hallWidth, hallLen)
  \o hallSegs(openingsOf(n, -1, hallLength, rd), 0, -hallWidth, hallLen)

----------------------------------------------------------------------------
(* buildInnerSideWall and the per-room part of buildMuseum *)

\* a mutation that tags the lintel as a wall
buildInnerSideWallLintelWall(px, pz, rw, rh, rd, side, room) ==
  LET segLen  == (rd - INNER_DOOR_W) \div 2
      lintelH == rh - INNER_DOOR_H
      wx      == -side * (rw \div 2)
  IN  << addBox(px, pz, WALL_T, segLen, wx, -(rd \div 2 - segLen \div 2),
                "innerRear", room),
         addBox(px, pz, WALL_T, segLen, wx, rd \div 2 - segLen \div 2,
                "innerFront", room),
         addBox(px, pz, WALL_T, INNER_DOOR_W, wx, 0, "lintel", room) >>

buildInnerSideWall(px, pz, rw, rh, rd, side, room) ==
  LET segLen  == (rd - INNER_DOOR_W) \div 2
      lintelH == rh - INNER_DOOR_H
      wx      == -side * (rw \div 2)
  IN  << addBox(px, pz, WALL_T, segLen, wx, -(rd \div 2 - segLen \div 2),
                "innerRear", room),
         addBox(px, pz, WALL_T, segLen, wx, rd \div 2 - segLen \div 2,
                "innerFront", room) >>
      \o (IF lintelH > 0
          THEN <<Mesh(px + wx, pz, WALL_T, INNER_DOOR_W, FALSE, "lintel", room)>>
          ELSE <<>>)

\* the room built for repos[k] (slot i = k - 1)
roomSide(k) == sideOf(k - 1)
\* a variant with rooms one tenth of the base width
roomRwNarrow(repo, c) == c.baseRoomWidth \div 10

roomRw(repo, c) == roomWidth(starsOf(repo), c.baseRoomWidth).v
roomCenterX(k, repo, c) == roomSide(k) * (c.hallWidth + roomRw(repo, c) \div 2)

roomMeshes(k, repo, c) ==
  LET side == roomSide(k)
      rw == roomRw(repo, c)
      rd == c.roomDepth
      px == roomCenterX(k, repo, c)
      pz == slotZOf(k - 1, c.hallLength)
  IN  << addBox(px, pz, rw, WALL_T, 0, -(rd \div 2) - WALL_T \div 2, "back", k),
         addBox(px, pz, WALL_T, rd, side * (rw \div 2), 0, "outer", k),
         addBox(px, pz, rw, WALL_T, 0, rd \div 2, "front", k) >>
      \o buildInnerSideWall(px, pz, rw, CONFIG.roomHeight, rd, side, k)
      \o << Mesh(px, pz, rw, rd, FALSE, "floor", k),
            Mesh(px, pz, rw, rd, FALSE, "ceiling", k),
            Mesh(px - side * (rw \div 2), pz, 0, INNER_DOOR_W, FALSE,
                 "portal", k),
            Mesh(px - side * (rw \div 2 - 1500), pz - (rd * 6) \div 10, 0,
                 Min(rw - 10000, 35000), FALSE, "panel", k),
            Mesh(px - side * (10000 + rw \div 2), pz + rd \div 2 + 800, 20000,
                 0, FALSE, "sign", k) >>

\* what the three requests of a room came back with, before any came back
NotFetched == [readme |-> "none", tree |-> "none", commits |-> "none"]

roomMetaEntry(k, repo, c) ==
  [ position |-> [x |-> roomCenterX(k, repo, c),
                  z |-> slotZOf(k - 1, c.hallLength)],
    repoName |-> repo.name,
    stars |-> starsOf(repo),
    rw |-> roomRw(repo, c),
    visible |-> TRUE,
    readmeLoaded |-> FALSE,
    fileTreeLoaded |-> FALSE,
    commitsLoaded |-> FALSE,
    fetch |-> "idle",
    fetched |-> NotFetched,
    panel |-> "blank",
    filePanel |-> "loading",
    commitPanel |-> "hidden" ]

\* buildMuseum: end cap, hallway side walls, then one room per repo
buildMuseum(rs, c) ==
  LET n == Len(rs)
      hallLen == (n + 2) * c.hallLength
      endWall == Mesh(0, -(hallLen + WALL_T \div 2), c.hallWidth * 2 + 2 * WALL_T,
                      WALL_T, TRUE, "endCap", 0)
      hall == << Mesh(0, -(hallLen \div 2), c.hallWidth * 2, hallLen, FALSE,
                      "floor", 0),
                 Mesh(0, -(hallLen \div 2), c.hallWidth * 2, hallLen, FALSE,
                      "ceiling", 0) >>
  IN  [ meshes |-> hall \o <<endWall>>
                   \o buildHallwaySideWalls(n, c.hallWidth, c.hallLength,
                                            c.roomDepth, hallLen)
                   \o Concat([k \in 1..n |-> roomMeshes(k, rs[k], c)]),
        roomMeta |-> [k \in 1..n |-> roomMetaEntry(k, rs[k], c)] ]

----------------------------------------------------------------------------
(* buildLobby *)

buildLobby(config) ==
  LET lobbyCenterZ == config.lobby.lobbyCenterZ
      spacing == config.lobby.cubeSize + config.lobby.cubeGap
      gridW == 52 * spacing
      gridD == 7 * spacing
      floorW == Max(gridW, 140000) + 40000
      floorBack == lobbyCenterZ + gridD \div 2 + 40000
      floorD == floorBack - 0
      floorCenterZ == (0 + floorBack) \div 2
      hallWidth == config.museum.hallWidth
      frontPanelW == floorW \div 2 - hallWidth
      lintelH == config.roomHeight - 34000
      col(x, z) == Mesh(x, z, 3600, 3600, TRUE, "column", 0)
  IN  << Mesh(0, floorCenterZ, floorW, floorD, FALSE, "floor", 0),
         Mesh(0, floorCenterZ, floorW, floorD, FALSE, "ceiling", 0),
         Mesh(0, floorBack + WALL_T \div 2, floorW, WALL_T, TRUE, "lobbyBack", 0),
         Mesh(-(floorW \div 2 + WALL_T \div 2), floorCenterZ, WALL_T, floorD,
              TRUE, "lobbySide", 0),
         Mesh(floorW \div 2 + WALL_T \div 2, floorCenterZ, WALL_T, floorD,
              TRUE, "lobbySide", 0) >>
      \o (IF frontPanelW > WALL_T
          THEN << Mesh(-(hallWidth + frontPanelW \div 2), 0, frontPanelW, WALL_T,
                       TRUE, "lobbyFront", 0),
                  Mesh(hallWidth + frontPanelW \div 2, 0, frontPanelW, WALL_T,
                       TRUE, "lobbyFront", 0) >>
               \o (IF lintelH > 0
                   THEN <<Mesh(0, 0, hallWidth * 2, WALL_T, FALSE,
                               "lobbyLintel", 0)>>
                   ELSE <<>>)
          ELSE <<>>)
      \o << col(-(floorW \div 2) + 8000, lobbyCenterZ - floorD \div 2 + 8000),
            col(floorW \div 2 - 8000, lobbyCenterZ - floorD \div 2 + 8000),
            col(-(floorW \div 2) + 8000, lobbyCenterZ + floorD \div 2 - 8000),
            col(floorW \div 2 - 8000, lobbyCenterZ + floorD \div 2 - 8000) >>

\* init(): collision boxes of every mesh tagged isWall, in traversal order
IsWallMesh(m) == m.isWall

\* a variant that takes a box of every mesh
collectAllBoxes(meshes) == meshes

collectWallBoxes(meshes) == SelectSeq(meshes, IsWallMesh)

----------------------------------------------------------------------------
(* Deep-link router: router.js.  Strings are sequences of characters.      *)

StrRoom == <<"r", "o", "o", "m", "/">>
StrLobby == <<"l", "o", "b", "b", "y">>

StartsWith(s, prefix) ==
  Len(s) >= Len(prefix) /\ SubSeq(s, 1, Len(prefix)) = prefix

Slice(s, n) == SubSeq(s, n + 1, Len(s))

\* characters encodeURIComponent leaves alone (those the model uses)
Unreserved == {"x", "y", "z", "2", "5", "F", "R", "U", "_"}

\* UTF-8 byte, as two hex digits, of the reserved characters the model uses
HexOf(c) == CASE c = "/"  -> <<"2", "F">>
              [] c = "%"  -> <<"2", "5">>
              [] c = "\"" -> <<"2", "2">>

RECURSIVE encodeURIComponent(_)
encodeURIComponent(s) ==
  IF s = <<>> THEN <<>>
  ELSE (IF Head(s) \in Unreserved THEN <<Head(s)>>
        ELSE <<"%">> \o HexOf(Head(s)))
       \o encodeURIComponent(Tail(s))

HexDigits == {"2", "5", "F"}

\* the character a %XX escape decodes to; bytes F2, F5 and FF are not a
\* complete UTF-8 sequence
ByteChar(h1, h2) ==
  CASE h1 = "2" /\ h2 = "2" -> "\""
    [] h1 = "2" /\ h2 = "5" -> "%"
    [] h1 = "2" /\ h2 = "F" -> "/"
    [] h1 = "5" /\ h2 = "2" -> "R"
    [] h1 = "5" /\ h2 = "5" -> "U"
    [] h1 = "5" /\ h2 = "F" -> "_"
    [] OTHER -> "URIError"

\* decodeURIComponent: [ok, s]; ok is FALSE when it throws URIError
RECURSIVE decodeURIComponent(_)
decodeURIComponent(s) ==
  IF s = <<>> THEN [ok |-> TRUE, s |-> <<>>]
  ELSE IF Head(s) # "%"
       THEN LET rest == decodeURIComponent(Tail(s))
            IN  [ok |-> rest.ok, s |-> <<Head(s)>> \o rest.s]
       ELSE IF Len(s) < 3 \/ s[2] \notin HexDigits \/ s[3] \notin HexDigits
                 \/ ByteChar(s[2], s[3]) = "URIError"
            THEN [ok |-> FALSE, s |-> <<>>]
            ELSE LET rest == decodeURIComponent(Slice(s, 3))
                 IN  [ok |-> rest.ok, s |-> <<ByteChar(s[2], s[3])>> \o rest.s]

LobbyState == [type |-> "lobby", repoName |-> <<>>]
RoomState(id) == [type |-> "room", repoName |-> id]
Thrown == [type |-> "throw", repoName |-> <<>>]
NoState == [type |-> "none", repoName |-> <<>>]

\* window.location.hash.replace(/^#\/?/, '')
StripHash(h) ==
  IF h # <<>> /\ Head(h) = "#"
  THEN IF Len(h) >= 2 /\ h[2] = "/" THEN Slice(h, 2) ELSE Slice(h, 1)
  ELSE h

\* a mutation that does not decode the id
parseHashNoDecode(h) ==
  LET t == StripHash(h)
  IN  IF t = <<>> \/ t = StrLobby THEN LobbyState
      ELSE IF StartsWith(t, StrRoom) /\ Slice(t, 5) # <<>>
           THEN RoomState(Slice(t, 5))
           ELSE LobbyState

parseHash(h) ==
  LET t == StripHash(h)
  IN  IF t = <<>> \/ t = StrLobby THEN LobbyState
      ELSE IF StartsWith(t, StrRoom)
           THEN LET d == decodeURIComponent(Slice(t, 5))
                IN  IF ~d.ok THEN Thrown
                    ELSE IF d.s # <<>> THEN RoomState(d.s)
                    ELSE LobbyState
           ELSE LobbyState

\* the hash written by history.replaceState
setHash(type, repoName) ==
  IF type = "room" /\ repoName # <<>>
  THEN <<"#">> \o StrRoom \o encodeURIComponent(repoName)
  ELSE <<"#">> \o StrLobby

----------------------------------------------------------------------------
(* Locality detector and teleport poses: main.js getPlayerRoom, router.js  *)

RECURSIVE firstRoomInclusive(_, _, _, _)
firstRoomInclusive(p, rooms, rd, k) ==
  IF k > Len(rooms) THEN 0
  ELSE LET rm == rooms[k]
           hw == rm.rw \div 2
       IN  IF /\ p.x >= rm.position.x - hw /\ p.x < rm.position.x + hw
              /\ p.z >= rm.position.z - rd \div 2
              /\ p.z < rm.position.z + rd \div 2
           THEN k
           ELSE firstRoomInclusive(p, rooms, rd, k + 1)

\* a variant that skips rooms whose group is hidden
RECURSIVE firstVisibleRoom(_, _, _, _)
firstVisibleRoom(p, rooms, rd, k) ==
  IF k > Len(rooms) THEN 0
  ELSE LET rm == rooms[k]
           hw == rm.rw \div 2
       IN  IF /\ rm.visible
              /\ p.x > rm.position.x - hw /\ p.x < rm.position.x + hw
              /\ p.z > rm.position.z - rd \div 2
              /\ p.z < rm.position.z + rd \div 2
           THEN k
           ELSE firstVisibleRoom(p, rooms, rd, k + 1)

RECURSIVE firstRoom(_, _, _, _)
firstRoom(p, rooms, rd, k) ==
  IF k > Len(rooms) THEN 0
  ELSE LET rm == rooms[k]
           hw == rm.rw \div 2
       IN  IF /\ p.x > rm.position.x - hw /\ p.x < rm.position.x + hw
              /\ p.z > rm.position.z - rd \div 2
              /\ p.z < rm.position.z + rd \div 2
           THEN k
           ELSE firstRoom(p, rooms, rd, k + 1)

\* a mutation with inclusive lower edges
getPlayerRoomInclusive(p, rooms, museumCfg) ==
  firstRoomInclusive(p, rooms, museumCfg.roomDepth, 1)

\* index of the first room strictly containing p, 0 for null
getPlayerRoom(p, rooms, museumCfg) ==
  firstRoom(p, rooms, museumCfg.roomDepth, 1)

\* roomMeta.find(rm => rm.repoName === name): index, 0 when not found
RECURSIVE findRoom(_, _, _)
findRoom(rooms, name, k) ==
  IF k > Len(rooms) THEN 0
  ELSE IF rooms[k].repoName = name THEN k
  ELSE findRoom(rooms, name, k + 1)

\* a variant that lands at the centre of the room
teleportToRoomCentre(room, config) ==
  [ pos |-> [ x |-> room.position.x, y |-> config.player.height,
              z |-> room.position.z ],
    yaw |-> IF room.position.x > 0 THEN 3 ELSE 1 ]

teleportToRoom(room, config) ==
  LET side == IF room.position.x > 0 THEN 1 ELSE -1
  IN  [ pos |-> [ x |-> room.position.x - side * (room.rw \div 2 - 15000),
                  y |-> config.player.height,
                  z |-> room.position.z ],
        yaw |-> IF side > 0 THEN 3 ELSE 1 ]

\* a variant that drops the camera to the floor
teleportToLobbyFloor(config) ==
  [ x |-> 0, y |-> 0, z |-> config.lobby.lobbyCenterZ + 20000 ]

teleportToLobby(config) ==
  [ x |-> 0, y |-> config.player.height,
    z |-> config.lobby.lobbyCenterZ + 20000 ]

\* camera.position.set(0, height, lobbyCenterZ + 2) at module load
SpawnPos == [ x |-> 0, y |-> CONFIG.player.height,
              z |-> CONFIG.lobby.lobbyCenterZ + 20000 ]

----------------------------------------------------------------------------
(* Collision resolver: main.js resolveCollisions *)

\* a variant that sends equal overlaps to the x axis
resolveBoxTieX(p, box, radius) ==
  LET nearX == Max(box.minX, Min(p.x, box.maxX))
      nearZ == Max(box.minZ, Min(p.z, box.maxZ))
      dx == p.x - nearX
      dz == p.z - nearZ
  IN  IF Abs(dx) >= radius \/ Abs(dz) >= radius THEN p
      ELSE LET distSq == dx * dx + dz * dz
           IN  IF distSq >= radius * radius THEN p
               ELSE IF distSq > 10000
               THEN LET dist == Sqrt(distSq)
                        overlap == radius - dist
                    IN  [p EXCEPT !.x = @ + RoundDiv(dx * overlap, dist),
                                  !.z = @ + RoundDiv(dz * overlap, dist)]
               ELSE LET cx2 == box.minX + box.maxX
                        cz2 == box.minZ + box.maxZ
                        ox2 == (box.maxX - box.minX) + 2 * radius
                               - Abs(2 * p.x - cx2)
                        oz2 == (box.maxZ - box.minZ) + 2 * radius
                               - Abs(2 * p.z - cz2)
                    IN  IF ox2 <= oz2
                        THEN [p EXCEPT !.x = IF 2 * p.x > cx2
                                             THEN @ + RoundDiv(ox2, 2)
                                             ELSE @ - RoundDiv(ox2, 2)]
                        ELSE [p EXCEPT !.z = IF 2 * p.z > cz2
                                             THEN @ + RoundDiv(oz2, 2)
                                             ELSE @ - RoundDiv(oz2, 2)]

resolveBox(p, box, radius) ==
  LET nearX == Max(box.minX, Min(p.x, box.maxX))
      nearZ == Max(box.minZ, Min(p.z, box.maxZ))
      dx == p.x - nearX
      dz == p.z - nearZ
  IN  IF Abs(dx) >= radius \/ Abs(dz) >= radius THEN p
      ELSE LET distSq == dx * dx + dz * dz
           IN  IF distSq >= radius * radius THEN p
               ELSE IF distSq > 10000
               THEN LET dist == Sqrt(distSq)
                        overlap == radius - dist
                    IN  [p EXCEPT !.x = @ + RoundDiv(dx * overlap, dist),
                                  !.z = @ + RoundDiv(dz * overlap, dist)]
               ELSE LET cx2 == box.minX + box.maxX
                        cz2 == box.minZ + box.maxZ
                        ox2 == (box.maxX - box.minX) + 2 * radius
                               - Abs(2 * p.x - cx2)
                        oz2 == (box.maxZ - box.minZ) + 2 * radius
                               - Abs(2 * p.z - cz2)
                    IN  IF ox2 < oz2
                        THEN [p EXCEPT !.x = IF 2 * p.x > cx2
                                             THEN @ + RoundDiv(ox2, 2)
                                             ELSE @ - RoundDiv(ox2, 2)]
                        ELSE [p EXCEPT !.z = IF 2 * p.z > cz2
                                             THEN @ + RoundDiv(oz2, 2)
                                             ELSE @ - RoundDiv(oz2, 2)]

\* for (const box of wallBoxes): position p is a pair of numbers throughout
RECURSIVE resolvePass(_, _, _, _)
resolvePass(p, boxes, radius, i) ==
  IF p.x \notin Int \/ p.z \notin Int \/ i > Len(boxes) THEN p
  ELSE resolvePass(resolveBox(p, boxes[i], radius), boxes, radius, i + 1)

RECURSIVE resolveIters(_, _, _, _)
resolveIters(p, boxes, radius, iter) ==
  IF iter >= 3 THEN p
  ELSE resolveIters(resolvePass(p, boxes, radius, 1), boxes, radius, iter + 1)

resolveCollisions(p, boxes, radius) == resolveIters(p, boxes, radius, 0)

----------------------------------------------------------------------------
(* Movement integrator: controls.js updateMovement, main.js loop           *)

\* unit vectors of the camera for a yaw of q quarter turns
RightX(q) == CASE q = 0 -> 1 [] q = 1 -> 0 [] q = 2 -> -1 [] q = 3 -> 0
RightZ(q) == CASE q = 0 -> 0 [] q = 1 -> -1 [] q = 2 -> 0 [] q = 3 -> 1
ForwardX(q) == CASE q = 0 -> 0 [] q = 1 -> -1 [] q = 2 -> 0 [] q = 3 -> 1
ForwardZ(q) == CASE q = 0 -> -1 [] q = 1 -> 0 [] q = 2 -> 1 [] q = 3 -> 0

\* key state: inputX, inputZ in -1..1 and the shift flag
KeyState(ix, iz, shift) == [inputX |-> ix, inputZ |-> iz, shift |-> shift]

moveSpeedOf(k, player) ==
  IF k.shift THEN (player.speed * player.runMultiplier10) \div 10
  ELSE player.speed

\* a variant without the division by Math.hypot(inputX, inputZ)
targetOfRaw(input, other, moveSpeed) == input * moveSpeed

\* input / Math.hypot(inputX, inputZ) * moveSpeed
targetOf(input, other, moveSpeed) ==
  IF input = 0 THEN 0
  ELSE IF other = 0 THEN input * moveSpeed
  ELSE input * RoundDiv(moveSpeed * 7071, 10000)

\* one call of controls.updateMovement(delta), delta given in microseconds
updateMovement(st, k, subUs, player) ==
  LET t == Min(10000, RoundDiv(player.damping * subUs, 100))
      moveSpeed == moveSpeedOf(k, player)
      vx == st.velocity.x
            + RoundDiv((targetOf(k.inputX, k.inputZ, moveSpeed)
                        - st.velocity.x) * t, 10000)
      vz == st.velocity.z
            + RoundDiv((targetOf(k.inputZ, k.inputX, moveSpeed)
                        - st.velocity.z) * t, 10000)
      right == RoundDiv(vx * subUs, 100000)
      forward == RoundDiv((-vz) * subUs, 100000)
  IN  [ pos |-> [ x |-> st.pos.x + RightX(st.yaw) * right
                        + ForwardX(st.yaw) * forward,
                  y |-> player.height,
                  z |-> st.pos.z + RightZ(st.yaw) * right
                        + ForwardZ(st.yaw) * forward ],
        velocity |-> [x |-> vx, z |-> vz],
        yaw |-> st.yaw ]

\* joystick state of the touch controls: thumb offset in pixels, clamped to
\* joystickMaxRadius by the touchmove handler
JoyState(dx, dy) == [joyX |-> dx, joyY |-> dy]

IsJoystick(k) == "joyX" \in DOMAIN k

joystickDeadzone == 10
joystickMaxRadius == 60

\* one call of the touch controls' updateMovement(delta): past the deadzone
\* the velocity is smoothed toward the thumb offset and the position
\* advanced; inside it the velocity decays and the position stays
mobileUpdateMovement(st, j, subUs, player) ==
  LET distSq == j.joyX * j.joyX + j.joyY * j.joyY
      isMoving == distSq > joystickDeadzone * joystickDeadzone
      isRunning == 16 * distSq > 9 * joystickMaxRadius * joystickMaxRadius
      moveSpeed == IF isRunning
                   THEN (player.speed * player.runMultiplier10) \div 10
                   ELSE player.speed
      t == Min(10000, RoundDiv(player.damping * subUs, 100))
      targetX == RoundDiv(j.joyX * moveSpeed, joystickMaxRadius)
      targetZ == RoundDiv(j.joyY * moveSpeed, joystickMaxRadius)
      vx == IF isMoving
            THEN st.velocity.x + RoundDiv((targetX - st.velocity.x) * t, 10000)
            ELSE RoundDiv(st.velocity.x * (10000 - t), 10000)
      vz == IF isMoving
            THEN st.velocity.z + RoundDiv((targetZ - st.velocity.z) * t, 10000)
            ELSE RoundDiv(st.velocity.z * (10000 - t), 10000)
      right == IF isMoving THEN RoundDiv(vx * subUs, 100000) ELSE 0
      forward == IF isMoving THEN RoundDiv((-vz) * subUs, 100000) ELSE 0
  IN  [ pos |-> [ x |-> st.pos.x + RightX(st.yaw) * right
                        + ForwardX(st.yaw) * forward,
                  y |-> player.height,
                  z |-> st.pos.z + RightZ(st.yaw) * right
                        + ForwardZ(st.yaw) * forward ],
        velocity |-> [x |-> vx, z |-> vz],
        yaw |-> st.yaw ]

\* controls.updateMovement of whichever controls init() created
integrate(st, k, subUs, player) ==
  IF IsJoystick(k) THEN mobileUpdateMovement(st, k, subUs, player)
  ELSE updateMovement(st, k, subUs, player)

\* a mutation that lets a substep cover the player diameter
stepsOfCoarse(deltaMs, player) ==
  -((-(deltaMs * ((player.speed * player.runMultiplier10) \div 10)))
    \div (200 * PLAYER_RADIUS))

\* Math.ceil(delta / (PLAYER_RADIUS / (speed * runMultiplier)))
stepsOf(deltaMs, player) ==
  -((-(deltaMs * ((player.speed * player.runMultiplier10) \div 10)))
    \div (100 * PLAYER_RADIUS))

\* one pass of the substep loop: move, then resolve
substep(st, k, subUs, boxes) ==
  [ pos |-> resolveCollisions(integrate(st, k, subUs, CONFIG.player).pos,
                              boxes, PLAYER_RADIUS),
    velocity |-> integrate(st, k, subUs, CONFIG.player).velocity,
    yaw |-> st.yaw ]

\* the states after each of s substeps, starting from st
RECURSIVE substeps(_, _, _, _, _)
substepsFrom(nxt, k, subUs, boxes, s) ==
  <<nxt>> \o substeps(nxt, k, subUs, boxes, s - 1)

substeps(st, k, subUs, boxes, s) ==
  IF s = 0 THEN <<>>
  ELSE substepsFrom(substep(st, k, subUs, boxes), k, subUs, boxes, s)

\* the movement part of loop() while the controls are locked: the states
\* after each substep, empty when delta is 0
moveFrame(st, k, deltaMs, boxes) ==
  LET steps == stepsOf(deltaMs, CONFIG.player)
  IN  IF steps = 0 THEN <<>>
      ELSE substeps(st, k, RoundDiv(deltaMs * 1000, steps), boxes, steps)

----------------------------------------------------------------------------
(* Per-frame room helpers: main.js updateRoomVisibility, loadRoomContent,  *)
(* museum.js showReadmePlaceholder                                         *)

\* a variant that culls at a tenth of the distance
updateRoomVisibilityNear(p, rooms, maxDist) ==
  [ k \in 1..Len(rooms) |->
      LET dx == RoundDiv(rooms[k].position.x - p.x, 100)
          dz == RoundDiv(rooms[k].position.z - p.z, 100)
      IN  [rooms[k] EXCEPT !.visible =
             (dx * dx + dz * dz < (maxDist * 10) * (maxDist * 10))] ]

\* rm.roomGroup.visible = dx*dx + dz*dz < maxDist*maxDist (in 1/100 units)
updateRoomVisibility(p, rooms, maxDist) ==
  [ k \in 1..Len(rooms) |->
      LET dx == RoundDiv(rooms[k].position.x - p.x, 100)
          dz == RoundDiv(rooms[k].position.z - p.z, 100)
      IN  [rooms[k] EXCEPT !.visible =
             (dx * dx + dz * dz < (maxDist * 100) * (maxDist * 100))] ]

showReadmePlaceholder(room) == [room EXCEPT !.panel = "loading"]

\* a mutation that leaves the in-flight guard unset until the fetch returns
loadRoomContentNoGuard(room) == [room EXCEPT !.fetch = "pending"]

\* the synchronous part of loadRoomContent: mark, then start the fetches
loadRoomContent(room) ==
  [room EXCEPT !.readmeLoaded = TRUE, !.fileTreeLoaded = TRUE,
               !.fetch = "pending"]

\* a variant without the readmeLoaded guard
enterRoomUnguarded(rooms, k) ==
  [rooms EXCEPT ![k] = loadRoomContent(showReadmePlaceholder(rooms[k]))]

\* if (!room.readmeLoaded) { showReadmePlaceholder(room); loadRoomContent(room) }
enterRoom(rooms, k) ==
  IF rooms[k].readmeLoaded THEN rooms
  ELSE [rooms EXCEPT ![k] = loadRoomContent(showReadmePlaceholder(rooms[k]))]

countLoad(rooms, k, starts) ==
  IF rooms[k].readmeLoaded THEN starts ELSE [starts EXCEPT ![k] = @ + 1]

----------------------------------------------------------------------------
(* State machine *)

IdleRouter == [serialized |-> NoState, parsed |-> NoState]
Missing == [hasStars |-> FALSE, stargazers_count |-> 0]
IdleSizing == [p1 |-> Missing, p2 |-> Missing, w1 |-> NaN, w2 |-> NaN,
               done |-> FALSE]
IdleProbe == [x |-> 0, z |-> 0, result |-> 0, done |-> FALSE]
IdleResolver == [p |-> [x |-> 0, z |-> 0], once |-> [x |-> 0, z |-> 0],
                 twice |-> [x |-> 0, z |-> 0], done |-> FALSE]

\* repository names, unique per owner
RepoNames == << <<"x">>, <<"y">>, <<"z">>, <<"x", "y">>, <<"y", "z">> >>

Repo(k, hasStars, count) ==
  [name |-> RepoNames[k], hasName |-> TRUE, hasStars |-> hasStars,
   stargazers_count |-> count]

\* makeInfoCanvas reads repo.name.length: a TypeError when name is missing
makeInfoCanvas(repo) == IF repo.hasName THEN "canvas" ELSE "throw"

\* buildMuseum throws when the info canvas of one of its rooms does
buildMuseumThrows(rs) ==
  \E i \in 1..Len(rs) : makeInfoCanvas(rs[i]) = "throw"

\* the state before init() runs: scene constructed, camera at the spawn pose
BootDevice(c, rs, h, mobile) ==
  /\ phase = "boot"
  /\ cfg = c
  /\ repos = rs
  /\ roomMeta = <<>>
  /\ wallBoxes = <<>>
  /\ pos = SpawnPos
  /\ velocity = [x |-> 0, z |-> 0]
  /\ yaw = 0
  /\ isLocked = FALSE
  /\ currentRoom = 0
  /\ hash = h
  /\ loadStarts = <<>>
  /\ frames = 0
  /\ router = IdleRouter
  /\ sizing = IdleSizing
  /\ probe = IdleProbe
  /\ directory = FALSE
  /\ path = <<>>
  /\ resolver = IdleResolver
  /\ trace = <<>>
  /\ isMobile = mobile

\* the same on a desktop browser
Boot(c, rs, h) == BootDevice(c, rs, h, FALSE)

\* a variant in which writing the URL dispatches hashchange, as an
\* assignment to location.hash does
locationAssignDispatches == TRUE

\* history.replaceState, used by setHash, changes the URL without
\* dispatching hashchange
replaceStateDispatches == FALSE

\* the pose the hashchange listener gives for the token of room k (0: lobby)
listenerPose(rooms, k, config) ==
  IF k # 0 THEN teleportToRoom(rooms[k], config).pos
  ELSE teleportToLobby(config)

\* the part of loop() after movement: visibility, then room entry detection
FrameTail(st1, trail) ==
  LET rooms1 == updateRoomVisibility(st1.pos, roomMeta, 35)
      detectedRoom == getPlayerRoom(st1.pos, rooms1, cfg)
  IN  /\ pos' = IF replaceStateDispatches /\ detectedRoom # currentRoom
                THEN listenerPose(rooms1, detectedRoom,
                                  [CONFIG EXCEPT !.museum = cfg])
                ELSE st1.pos
      /\ velocity' = st1.velocity
      /\ path' = IF trail = <<>> THEN path
                  ELSE <<pos>> \o [i \in 1..Len(trail) |-> trail[i].pos]
      /\ IF detectedRoom # currentRoom
         THEN /\ currentRoom' = detectedRoom
              /\ IF detectedRoom # 0
                 THEN /\ hash' = setHash("room",
                                         rooms1[detectedRoom].repoName)
                      /\ roomMeta' = enterRoom(rooms1, detectedRoom)
                      /\ loadStarts' = countLoad(rooms1, detectedRoom,
                                                 loadStarts)
                 ELSE /\ hash' = setHash("lobby", <<>>)
                      /\ roomMeta' = rooms1
                      /\ UNCHANGED loadStarts
         ELSE /\ roomMeta' = rooms1
              /\ UNCHANGED <<currentRoom, hash, loadStarts>>

\* the teleport shared by the initial deep link, the hashchange listener
\* and the directory: move, show the room, make it current, load once
TeleportInto(rooms, k, starts, config) ==
  /\ pos' = teleportToRoom(rooms[k], config).pos
  /\ yaw' = teleportToRoom(rooms[k], config).yaw
  /\ currentRoom' = k
  /\ roomMeta' = enterRoom([rooms EXCEPT ![k].visible = TRUE], k)
  /\ loadStarts' = countLoad(rooms, k, starts)
  /\ path' = <<>>

\* init(): build lobby and museum, collect the collision boxes, then follow
\* the initial deep link
init ==
  /\ UNCHANGED <<resolver, trace, isMobile>>
  /\ phase = "boot"
  /\ LET config == [CONFIG EXCEPT !.museum = cfg]
         museum == buildMuseum(repos, cfg)
         boxes == collectWallBoxes(buildLobby(config) \o museum.meshes)
         rooms == museum.roomMeta
         initialHash == parseHash(hash)
         target == IF initialHash.type = "room"
                   THEN findRoom(rooms, initialHash.repoName, 1) ELSE 0
         zero == [k \in 1..Len(rooms) |-> 0]
     IN  IF buildMuseumThrows(repos)
         THEN /\ phase' = "failed"
              /\ UNCHANGED <<wallBoxes, roomMeta, loadStarts, pos, yaw,
                             currentRoom, path>>
         ELSE
         /\ wallBoxes' = boxes
         /\ IF initialHash.type = "throw"
            THEN /\ phase' = "failed"
                 /\ roomMeta' = rooms
                 /\ loadStarts' = zero
                 /\ UNCHANGED <<pos, yaw, currentRoom, path>>
            ELSE /\ phase' = "running"
                 /\ IF target # 0
                    THEN TeleportInto(rooms, target, zero, config)
                    ELSE /\ roomMeta' = rooms
                         /\ loadStarts' = zero
                         /\ UNCHANGED <<pos, yaw, currentRoom, path>>
  /\ UNCHANGED <<cfg, repos, velocity, isLocked, hash, frames, router,
                 sizing, probe, directory>>

\* a click on the page with no overlay in the way, or Tap to Start, locks
\* the controls
Lock ==
  /\ UNCHANGED <<resolver, trace, isMobile>>
  /\ phase = "running"
  /\ ~isLocked
  /\ ~directory
  /\ isLocked' = TRUE
  /\ UNCHANGED <<phase, cfg, repos, roomMeta, wallBoxes, pos, velocity, yaw,
                 currentRoom, hash, loadStarts, frames, router, sizing,
                 probe, directory, path>>

\* a click on the directory overlay outside every card (its background or
\* heading): the overlay's listener returns and the document listener of the
\* desktop controls locks the pointer
ClickOverlay ==
  /\ UNCHANGED <<resolver, trace, isMobile>>
  /\ phase = "running"
  /\ directory
  /\ ~isMobile
  /\ ~isLocked
  /\ isLocked' = TRUE
  /\ UNCHANGED <<phase, cfg, repos, roomMeta, wallBoxes, pos, velocity, yaw,
                 currentRoom, hash, loadStarts, frames, router, sizing,
                 probe, directory, path>>

\* Esc unlocks it
Unlock ==
  /\ UNCHANGED <<resolver, trace, isMobile>>
  /\ phase = "running"
  /\ isLocked
  /\ isLocked' = FALSE
  /\ UNCHANGED <<phase, cfg, repos, roomMeta, wallBoxes, pos, velocity, yaw,
                 currentRoom, hash, loadStarts, frames, router, sizing,
                 probe, directory, path>>

\* loop(): one animation frame of deltaMs milliseconds with key state k
Frame(deltaMs, k) ==
  /\ UNCHANGED <<resolver, trace, isMobile>>
  /\ phase = "running"
  /\ IsJoystick(k) <=> isMobile
  /\ isLocked => frames < MaxFrames
  /\ LET st0 == [pos |-> pos, velocity |-> velocity, yaw |-> yaw]
         trail == IF isLocked THEN moveFrame(st0, k, deltaMs, wallBoxes)
                  ELSE <<>>
     IN  FrameTail(IF trail = <<>> THEN st0 ELSE trail[Len(trail)], trail)
  /\ frames' = IF isLocked THEN frames + 1 ELSE frames
  /\ UNCHANGED <<phase, cfg, repos, wallBoxes, yaw, isLocked, router, sizing,
                 probe, directory>>

\* T key (desktop, while locked) or teleport badge (while the overlay is
\* hidden): openDirectory() unlocks and shows the overlay
OpenDirectory ==
  /\ UNCHANGED <<resolver, trace, isMobile>>
  /\ phase = "running"
  /\ ~directory \/ (~isMobile /\ isLocked)
  /\ directory' = TRUE
  /\ isLocked' = FALSE
  /\ UNCHANGED <<phase, cfg, repos, roomMeta, wallBoxes, pos, velocity, yaw,
                 currentRoom, hash, loadStarts, frames, router, sizing,
                 probe, path>>

\* a card of the directory is clicked: room k, or the lobby card for k = 0
SelectDirectory(k) ==
  /\ UNCHANGED <<resolver, trace, isMobile>>
  /\ phase = "running"
  /\ directory
  /\ k \in 0..Len(roomMeta)
  /\ directory' = FALSE
  /\ isLocked' = TRUE
  /\ LET config == [CONFIG EXCEPT !.museum = cfg]
     IN  IF k # 0
         THEN /\ TeleportInto(roomMeta, k, loadStarts, config)
              /\ hash' = setHash("room", roomMeta[k].repoName)
         ELSE /\ pos' = teleportToLobby(config)
              /\ hash' = setHash("lobby", <<>>)
              /\ path' = <<>>
              /\ UNCHANGED <<yaw, currentRoom, roomMeta, loadStarts>>
  /\ UNCHANGED <<phase, cfg, repos, wallBoxes, velocity, frames, router,
                 sizing, probe>>

\* the teleport badge is clicked while the directory is shown
CloseDirectory ==
  /\ UNCHANGED <<resolver, trace, isMobile>>
  /\ phase = "running"
  /\ directory
  /\ directory' = FALSE
  /\ isLocked' = TRUE
  /\ UNCHANGED <<phase, cfg, repos, roomMeta, wallBoxes, pos, velocity, yaw,
                 currentRoom, hash, loadStarts, frames, router, sizing,
                 probe, path>>

\* the user edits the URL fragment to h: the hashchange listener of init()
HashChange(h) ==
  /\ UNCHANGED <<resolver, trace, isMobile>>
  /\ phase = "running"
  /\ h # hash
  /\ hash' = h
  /\ LET config == [CONFIG EXCEPT !.museum = cfg]
         st == parseHash(h)
         rm == IF st.type = "room" THEN findRoom(roomMeta, st.repoName, 1)
               ELSE 0
     IN  IF st.type = "throw"
         THEN UNCHANGED <<pos, yaw, currentRoom, roomMeta, loadStarts, path>>
         ELSE IF st.type = "room"
         THEN IF rm # 0
              THEN TeleportInto(roomMeta, rm, loadStarts, config)
              ELSE UNCHANGED <<pos, yaw, currentRoom, roomMeta, loadStarts,
                               path>>
         ELSE /\ pos' = teleportToLobby(config)
              /\ path' = <<>>
              /\ UNCHANGED <<yaw, currentRoom, roomMeta, loadStarts>>
  /\ UNCHANGED <<phase, cfg, repos, wallBoxes, velocity, isLocked, frames,
                 router, sizing, probe, directory>>

\* a request ends in one of three ways: a response with res.ok, a response
\* without it, or fetch() throwing
Outcomes == {"ok", "notok", "throws"}

\* fetchReadme, fetchFileTree, fetchCommits: data when res.ok, else null;
\* a throw inside the helper is caught and gives null
fetchHelper(outcome) == IF outcome = "ok" THEN "data" ELSE "null"

\* the rest of loadRoomContent after await Promise.all([...]): the three
\* requests of room k have ended as r, t and c
FetchComplete(k, r, t, c) ==
  /\ UNCHANGED <<resolver, trace, isMobile>>
  /\ phase = "running"
  /\ k \in 1..Len(roomMeta)
  /\ roomMeta[k].fetch = "pending"
  /\ LET markdown == fetchHelper(r)
         tree == fetchHelper(t)
         commits == fetchHelper(c)
         got == [readme |-> r, tree |-> t, commits |-> c]
     IN  IF "throw" \in {markdown, tree, commits}
         THEN roomMeta' = [roomMeta EXCEPT ![k].fetch = "rejected",
                                           ![k].fetched = got]
         ELSE roomMeta' = [roomMeta EXCEPT
                ![k].fetch = "done",
                ![k].fetched = got,
                ![k].panel = IF markdown = "data" THEN "readme"
                             ELSE "notfound",
                ![k].filePanel = IF tree = "data" THEN "tree"
                                 ELSE "nofiles",
                ![k].commitPanel = IF commits = "data" THEN "commits" ELSE @,
                ![k].commitsLoaded = TRUE]
  /\ UNCHANGED <<phase, cfg, repos, wallBoxes, pos, velocity, yaw, isLocked,
                 currentRoom, hash, loadStarts, frames, router, sizing,
                 probe, directory, path>>

----------------------------------------------------------------------------
(* Layout generator in isolation: every item list up to MaxRooms and a set *)
(* of corridor configurations                                               *)

LayoutStars == {<<FALSE, 0>>, <<TRUE, 3>>, <<TRUE, 100000>>}

RepoLists(n, stars) ==
  { [k \in 1..n |-> Repo(k, f[k][1], f[k][2])] : f \in [1..n -> stars] }

AllRepoLists(stars) == UNION { RepoLists(n, stars) : n \in 0..MaxRooms }

CfgSet ==
  { [CONFIG.museum EXCEPT !.hallLength = l, !.roomDepth = d] :
      l \in {40000, 50000, 100000}, d \in {80000, 100000} }

InitLayout == \E c \in CfgSet, rs \in AllRepoLists(LayoutStars) :
                Boot(c, rs, <<>>)

NextLayout == init

SpecLayout == InitLayout /\ [][NextLayout]_vars

Built == phase = "running"

hallLenOf == (Len(repos) + 2) * cfg.hallLength

BoxSide(b) == IF b.minX + b.maxX > 0 THEN 1 ELSE -1

\* the pieces of one corridor side: the hallway segments found in wallBoxes
\* and the door openings of the rooms found in roomMeta, as z intervals
IsHallSeg(b) == b.tag = "hall"
SidePieces(side) ==
  LET segs == SelectSeq(wallBoxes, LAMBDA b : IsHallSeg(b) /\ BoxSide(b) = side)
      mine == SelectSeq(roomMeta, LAMBDA rm :
                (IF rm.position.x > 0 THEN 1 ELSE -1) = side)
  IN  [i \in 1..Len(segs) |-> [lo |-> segs[i].minZ, hi |-> segs[i].maxZ]]
      \o [i \in 1..Len(mine) |->
            [lo |-> mine[i].position.z - cfg.roomDepth \div 2,
             hi |-> mine[i].position.z + cfg.roomDepth \div 2]]

\* the pieces lie in the corridor span, do not overlap, and each piece that
\* does not reach the far end is followed by another within a dropped sliver
Tiles(side) ==
  LET ps == SidePieces(side)
      I == 1..Len(ps)
  IN  /\ \A i \in I : ps[i].lo >= -hallLenOf /\ ps[i].hi <= 0
      /\ \A i, j \in I : i # j => (ps[i].hi <= ps[j].lo \/ ps[j].hi <= ps[i].lo)
      /\ \E i \in I : ps[i].hi >= -500
      /\ \A i \in I : ps[i].lo > -hallLenOf + 500 =>
           \E j \in I : ps[j].hi <= ps[i].lo /\ ps[j].hi >= ps[i].lo - 500

\* C3 as stated: for every configuration, on each corridor side the door
\* openings and the hallway segments exactly tile the corridor span
C3_TilingAnyConfig == Built => \A side \in {1, -1} : Tiles(side)

\* C3 amended: whenever roomDepth <= 2 * hallLength, on each corridor side
\* the door openings and the hallway segments exactly tile the corridor span
C3_Tiling ==
  (Built /\ cfg.roomDepth <= 2 * cfg.hallLength) =>
    \A side \in {1, -1} : Tiles(side)

\* a corridor with a segment strictly between two openings of one side
C3_Witness ==
  /\ Built /\ cfg.roomDepth < 2 * cfg.hallLength /\ Len(repos) >= 3
  /\ \E i \in 1..Len(wallBoxes) :
       /\ wallBoxes[i].tag = "hall"
       /\ wallBoxes[i].maxZ < -cfg.hallLength
       /\ wallBoxes[i].minZ > -hallLenOf + cfg.hallLength

\* C4: buildMuseum produces exactly one room per item, in input order; room
\* i is on side +1 for even i and -1 for odd i, at slotZ = -(i+1)*hallLength
\* and centre x = side * (hallWidth + roomWidth / 2)
C4_RoomPlacement ==
  Built =>
    /\ Len(roomMeta) = Len(repos)
    /\ Cardinality({i \in 1..Len(wallBoxes) : wallBoxes[i].tag = "outer"})
         = Len(repos)
    /\ \A k \in 1..Len(roomMeta) :
         LET side == IF (k - 1) % 2 = 0 THEN 1 ELSE -1
         IN  /\ roomMeta[k].repoName = repos[k].name
             /\ roomMeta[k].position.z = -(k * cfg.hallLength)
             /\ roomMeta[k].position.x
                  = side * (cfg.hallWidth + roomMeta[k].rw \div 2)
             /\ \A i \in 1..Len(wallBoxes) :
                  wallBoxes[i].room = k => BoxSide(wallBoxes[i]) = side

C4_Witness == Built /\ Len(roomMeta) = 3 /\ roomMeta[2].position.x < 0

\* the doorway gap of room k: the inner wall's thickness across the opening
GapOf(k) ==
  LET side == IF roomMeta[k].position.x > 0 THEN 1 ELSE -1
  IN  [ minX |-> side * cfg.hallWidth - WALL_T \div 2,
        maxX |-> side * cfg.hallWidth + WALL_T \div 2,
        minZ |-> roomMeta[k].position.z - INNER_DOOR_W \div 2,
        maxZ |-> roomMeta[k].position.z + INNER_DOOR_W \div 2 ]

Overlaps(b, g) ==
  b.minX < g.maxX /\ b.maxX > g.minX /\ b.minZ < g.maxZ /\ b.maxZ > g.minZ

\* C6: every room's inner wall at x = side*hallWidth is exactly two blocking
\* segments flanking a centred gap of width 2.6 at slotZ, whatever the room
\* width, and no collision box overlaps that gap
C6_DoorwayOpen ==
  Built =>
    \A k \in 1..Len(roomMeta) :
      LET g == GapOf(k)
          inner == {i \in 1..Len(wallBoxes) :
                      /\ wallBoxes[i].room = k
                      /\ wallBoxes[i].minX = g.minX
                      /\ wallBoxes[i].maxX = g.maxX}
      IN  /\ Cardinality(inner) = 2
          /\ \E i, j \in inner : /\ wallBoxes[i].maxZ = g.minZ
                                 /\ wallBoxes[j].minZ = g.maxZ
          /\ g.maxZ - g.minZ = 26000
          /\ \A i \in 1..Len(wallBoxes) : ~Overlaps(wallBoxes[i], g)

C6_Witness ==
  /\ Built
  /\ \E k, j \in 1..Len(roomMeta) :
       roomMeta[k].rw = 250000 /\ roomMeta[j].rw = 100000

----------------------------------------------------------------------------
(* Pure functions in isolation: the world is not built, one variable holds *)
(* the inputs and outputs of the function under study                      *)

Pure(r, sz, pr) ==
  /\ phase = "pure"
  /\ cfg = CONFIG.museum
  /\ repos = <<>>
  /\ roomMeta = <<>>
  /\ wallBoxes = <<>>
  /\ pos = SpawnPos
  /\ velocity = [x |-> 0, z |-> 0]
  /\ yaw = 0
  /\ isLocked = FALSE
  /\ currentRoom = 0
  /\ hash = <<>>
  /\ loadStarts = <<>>
  /\ frames = 0
  /\ router = r
  /\ sizing = sz
  /\ probe = pr
  /\ directory = FALSE
  /\ path = <<>>
  /\ resolver = IdleResolver
  /\ trace = <<>>
  /\ isMobile = FALSE

----------------------------------------------------------------------------
(* Room sizing policy *)

Popularity ==
  {Missing} \cup { [hasStars |-> TRUE, stargazers_count |-> c] :
                     c \in {-2, -1, 0, 1, 3, 50, 1000, 30000, 100000} }

InitSizing ==
  \E a, b \in Popularity :
    Pure(IdleRouter, [IdleSizing EXCEPT !.p1 = a, !.p2 = b], IdleProbe)

\* the sizing lines of buildMuseum applied to two items
applySizing ==
  /\ UNCHANGED <<resolver, trace, isMobile>>
  /\ phase = "pure"
  /\ ~sizing.done
  /\ sizing' = [sizing EXCEPT
                  !.w1 = roomWidth(starsOf(sizing.p1),
                                   CONFIG.museum.baseRoomWidth),
                  !.w2 = roomWidth(starsOf(sizing.p2),
                                   CONFIG.museum.baseRoomWidth),
                  !.done = TRUE]
  /\ UNCHANGED <<phase, cfg, repos, roomMeta, wallBoxes, pos, velocity, yaw,
                 isLocked, currentRoom, hash, loadStarts, frames, router,
                 probe, directory, path>>

NextSizing == applySizing

SpecSizing == InitSizing /\ [][NextSizing]_vars

\* the popularity the claim attributes to an item: missing and negative
\* values count as zero
ClampedPopularity(p) ==
  IF ~p.hasStars \/ p.stargazers_count < 0 THEN 0 ELSE p.stargazers_count

\* JavaScript <= on numbers: false whenever NaN is involved
NumLeq(a, b) ==
  /\ a.kind # "nan" /\ b.kind # "nan"
  /\ \/ a.kind = "ninf"
     \/ a.kind = "num" /\ b.kind = "num" /\ a.v <= b.v

\* C5: for every popularity input, missing and negative values counting as
\* zero, baseRoomWidth <= roomWidth <= 2.5 * baseRoomWidth, and a smaller
\* popularity never gives a wider room
C5_WidthMonotoneBounded ==
  sizing.done =>
    /\ NumLeq(Num(CONFIG.museum.baseRoomWidth), sizing.w1)
    /\ NumLeq(sizing.w1, Num((CONFIG.museum.baseRoomWidth * 5) \div 2))
    /\ (ClampedPopularity(sizing.p1) < ClampedPopularity(sizing.p2)
          => NumLeq(sizing.w1, sizing.w2))

----------------------------------------------------------------------------
(* Deep-link router *)

IdAlphabet == {"x", "/", "%", "2", "F"}

Ids == UNION { [1..n -> IdAlphabet] : n \in 1..MaxIdLen }

RouterStates == {LobbyState} \cup { RoomState(id) : id \in Ids }

InitRouter == Pure(IdleRouter, IdleSizing, IdleProbe)

\* setHash(type, repoName) for a navigation state st
Serialize(st) ==
  /\ UNCHANGED <<resolver, trace, isMobile>>
  /\ phase = "pure"
  /\ hash' = setHash(st.type, st.repoName)
  /\ router' = [serialized |-> st, parsed |-> NoState]
  /\ UNCHANGED <<phase, cfg, repos, roomMeta, wallBoxes, pos, velocity, yaw,
                 isLocked, currentRoom, loadStarts, frames, sizing, probe,
                 directory, path>>

\* parseHash() on the current location hash
Parse ==
  /\ UNCHANGED <<resolver, trace, isMobile>>
  /\ phase = "pure"
  /\ router.serialized # NoState
  /\ router.parsed = NoState
  /\ router' = [router EXCEPT !.parsed = parseHash(hash)]
  /\ UNCHANGED <<phase, cfg, repos, roomMeta, wallBoxes, pos, velocity, yaw,
                 isLocked, currentRoom, hash, loadStarts, frames, sizing,
                 probe, directory, path>>

NextRouter == (\E st \in RouterStates : Serialize(st)) \/ Parse

SpecRouter == InitRouter /\ [][NextRouter]_vars

\* C9: parseHash applied to the hash written by setHash returns the state
\* that was serialized, for the lobby and for every non-empty room id
C9_RoundTrip == router.parsed # NoState => router.parsed = router.serialized

\* a round trip of an id that itself looks like a percent escape
C9_Witness ==
  /\ router.parsed = router.serialized
  /\ router.serialized = RoomState(<<"%", "2", "F">>)

----------------------------------------------------------------------------
(* Locality detector in isolation *)

LocalityStars == {<<FALSE, 0>>, <<TRUE, 100000>>}

InitLocality == \E c \in CfgSet, rs \in AllRepoLists(LocalityStars) :
                  Boot(c, rs, <<>>)

\* the edge coordinates of room k along one axis, one step either side
EdgeCoords(centre, extent) ==
  { centre - extent \div 2 + d : d \in {-1, 0, 1} }
  \cup { centre + extent \div 2 + d : d \in {-1, 0, 1} }

\* getPlayerRoom called with the position (x, z)
Probe(x, z) ==
  /\ UNCHANGED <<resolver, trace, isMobile>>
  /\ phase = "running"
  /\ probe' = [x |-> x, z |-> z, done |-> TRUE,
               result |-> getPlayerRoom([x |-> x, z |-> z], roomMeta, cfg)]
  /\ UNCHANGED <<phase, cfg, repos, roomMeta, wallBoxes, pos, velocity, yaw,
                 isLocked, currentRoom, hash, loadStarts, frames, router,
                 sizing, directory,
                 path>>

NextLocality ==
  \/ init
  \/ \E k \in 1..Len(roomMeta) :
       \E x \in EdgeCoords(roomMeta[k].position.x, roomMeta[k].rw),
          z \in EdgeCoords(roomMeta[k].position.z, cfg.roomDepth) :
         Probe(x, z)

SpecLocality == InitLocality /\ [][NextLocality]_vars

InOpenRect(k, x, z) ==
  /\ 2 * x > 2 * roomMeta[k].position.x - roomMeta[k].rw
  /\ 2 * x < 2 * roomMeta[k].position.x + roomMeta[k].rw
  /\ 2 * z > 2 * roomMeta[k].position.z - cfg.roomDepth
  /\ 2 * z < 2 * roomMeta[k].position.z + cfg.roomDepth

InHalfOpenRect(k, x, z) ==
  /\ 2 * x >= 2 * roomMeta[k].position.x - roomMeta[k].rw
  /\ 2 * x < 2 * roomMeta[k].position.x + roomMeta[k].rw
  /\ 2 * z >= 2 * roomMeta[k].position.z - cfg.roomDepth
  /\ 2 * z < 2 * roomMeta[k].position.z + cfg.roomDepth

FirstOf(S) == IF S = {} THEN 0 ELSE CHOOSE k \in S : \A j \in S : k <= j

----------------------------------------------------------------------------
(* Movement and collision: a two-room museum entered at the lobby spawn or *)
(* through a deep link, then locked frames with held keys                   *)

MoveRepos == << Repo(1, FALSE, 0), Repo(2, TRUE, 100000) >>

MoveHashes == { <<>>, setHash("room", RepoNames[1]),
                setHash("room", RepoNames[2]) }

\* frame times in milliseconds: a stalled tab and a slow frame
MoveDeltas == {1000, 700}

\* D, W, S held with Shift
MoveKeys == { KeyState(1, 0, TRUE), KeyState(0, -1, TRUE),
              KeyState(0, 1, TRUE) }

InitMove == \E h \in MoveHashes : Boot(CONFIG.museum, MoveRepos, h)

NextMove ==
  \/ init
  \/ Lock
  \/ Unlock
  \/ \E deltaMs \in MoveDeltas, k \in MoveKeys : Frame(deltaMs, k)

SpecMove == InitMove /\ [][NextMove]_vars

\* how far the avatar circle reaches into box b: radius minus the distance
\* from p to the nearest point of b, 0 when they do not touch
Penetration(p, b) ==
  LET dx == p.x - Max(b.minX, Min(p.x, b.maxX))
      dz == p.z - Max(b.minZ, Min(p.z, b.maxZ))
  IN  IF Abs(dx) >= PLAYER_RADIUS \/ Abs(dz) >= PLAYER_RADIUS THEN 0
      ELSE Max(0, PLAYER_RADIUS - Sqrt(dx * dx + dz * dz) - 1)

\* C1: after every frame the avatar circle overlaps no collision box by more
\* than a tolerance (0.01 of a unit here, far above any rounding error)
C1_NoResidualPenetration ==
  phase = "running" =>
    \A i \in 1..Len(wallBoxes) : Penetration(pos, wallBoxes[i]) <= 100

\* a collision box with a given tag on the +x side
BoxTagged(tag) ==
  wallBoxes[CHOOSE i \in 1..Len(wallBoxes) :
              wallBoxes[i].tag = tag /\ wallBoxes[i].maxX > 0]

\* the regions of the walkable footprint, bounded by the wall faces
InLobby(p) ==
  /\ Abs(p.x) <= BoxTagged("lobbySide").minX
  /\ p.z >= BoxTagged("lobbyFront").maxZ
  /\ p.z <= BoxTagged("lobbyBack").minZ

InOpening(p) ==
  /\ Abs(p.x) <= cfg.hallWidth
  /\ p.z >= 0 /\ p.z <= BoxTagged("lobbyFront").maxZ

InHall(p) ==
  /\ Abs(p.x) <= cfg.hallWidth - WALL_T \div 2
  /\ p.z <= 0 /\ p.z >= -hallLenOf

InRoom(k, p) ==
  LET side == IF roomMeta[k].position.x > 0 THEN 1 ELSE -1
  IN  /\ side * p.x >= cfg.hallWidth + WALL_T \div 2
      /\ side * p.x <= cfg.hallWidth + roomMeta[k].rw - WALL_T \div 2
      /\ 2 * p.z >= 2 * roomMeta[k].position.z - cfg.roomDepth
      /\ 2 * p.z <= 2 * roomMeta[k].position.z + cfg.roomDepth - WALL_T

InDoorway(k, p) ==
  LET side == IF roomMeta[k].position.x > 0 THEN 1 ELSE -1
  IN  /\ side * p.x >= cfg.hallWidth - WALL_T \div 2
      /\ side * p.x <= cfg.hallWidth + WALL_T \div 2
      /\ 2 * Abs(p.z - roomMeta[k].position.z) <= INNER_DOOR_W

Walkable(p) ==
  \/ InLobby(p) \/ InOpening(p) \/ InHall(p)
  \/ \E k \in 1..Len(roomMeta) : InRoom(k, p) \/ InDoorway(k, p)

\* the room a walkable position lies in, 0 for lobby, corridor and doorways
RoomSideOf(p) ==
  IF \E k \in 1..Len(roomMeta) : InRoom(k, p)
  THEN CHOOSE k \in 1..Len(roomMeta) : InRoom(k, p)
  ELSE 0

\* a and b lie within the doorway gap of room k along the corridor axis
AlongDoorway(k, a, b) ==
  /\ 2 * Abs(a.z - roomMeta[k].position.z) <= INNER_DOOR_W
  /\ 2 * Abs(b.z - roomMeta[k].position.z) <= INNER_DOOR_W

\* a substep from a to b changes sides of a wall only through a gap
LegalStep(a, b) ==
  /\ RoomSideOf(a) # RoomSideOf(b) =>
       /\ RoomSideOf(a) = 0 \/ RoomSideOf(b) = 0
       /\ AlongDoorway(RoomSideOf(a) + RoomSideOf(b), a, b)
  /\ (a.z > BoxTagged("lobbyFront").maxZ /\ b.z < 0) \/
     (b.z > BoxTagged("lobbyFront").maxZ /\ a.z < 0) =>
       Abs(a.x) <= cfg.hallWidth /\ Abs(b.x) <= cfg.hallWidth

\* C2: the avatar's centre is inside the walkable footprint after every
\* substep of every locked frame, and a substep takes it across a wall
\* plane only inside a doorway gap or the lobby/hallway opening
C2_NoWallCrossing ==
  phase = "running" =>
    /\ Walkable(pos)
    /\ \A i \in 1..Len(path) : Walkable(path[i])
    /\ \A i \in 1..(Len(path) - 1) : LegalStep(path[i], path[i + 1])

\* a frame that starts in room 1, leaves through its doorway, crosses the
\* corridor and ends pressed against the opposite corridor wall
C2_Witness ==
  /\ phase = "running" /\ frames > 0 /\ path # <<>>
  /\ InRoom(1, path[1])
  /\ InHall(pos)
  /\ pos.x = -(cfg.hallWidth - WALL_T \div 2 - PLAYER_RADIUS)
  /\ velocity.z > 0

----------------------------------------------------------------------------
(* Navigation: deep links, hashchange events, the room directory, walking  *)
(* in and out of rooms, and the content fetches they start                 *)

NavRepos == << Repo(1, FALSE, 0), Repo(2, TRUE, 3) >>

\* "#room/z" names no room; "#room/%F" is a malformed escape
NavHashes ==
  { setHash("lobby", <<>>), setHash("room", RepoNames[1]),
    setHash("room", RepoNames[2]), setHash("room", RepoNames[3]),
    <<"#">> \o StrRoom \o <<"%", "F">> }

NavDeltas == {300}

\* W and S held with Shift
NavKeys == { KeyState(0, -1, TRUE), KeyState(0, 1, TRUE) }

Init == \E h \in NavHashes \cup {<<>>} : Boot(CONFIG.museum, NavRepos, h)

Next ==
  \/ init
  \/ Lock
  \/ Unlock
  \/ \E deltaMs \in NavDeltas, k \in NavKeys : Frame(deltaMs, k)
  \/ OpenDirectory
  \/ \E k \in 0..Len(roomMeta) : SelectDirectory(k)
  \/ CloseDirectory
  \/ \E h \in NavHashes : HashChange(h)
  \/ \E k \in 1..Len(roomMeta), o \in {"ok", "notok"} :
       FetchComplete(k, o, o, o)

Spec == Init /\ [][Next]_vars

StartsBefore(k) == IF k \in DOMAIN loadStarts THEN loadStarts[k] ELSE 0

\* C8: loadRoomContent is entered at most once per room over any
\* interleaving of frames, teleports, deep links and hashchange events, and
\* only in a step that makes that room the current room
C8_LoadOnce ==
  /\ [](\A k \in DOMAIN loadStarts : loadStarts[k] <= 1)
  /\ [][\A k \in DOMAIN loadStarts' :
          loadStarts'[k] > StartsBefore(k) => currentRoom' = k]_vars

\* a frame has just walked the avatar from the corridor back into room 1,
\* whose only fetch had already come back without a README
C8_Witness ==
  /\ phase = "running" /\ path # <<>>
  /\ ~InRoom(1, path[1])
  /\ getPlayerRoom(pos, roomMeta, cfg) = 1
  /\ currentRoom = 1
  /\ roomMeta[1].panel = "notfound"
  /\ loadStarts[1] = 1

\* the navigation token in h is room/<id> and the id matches no room
UnknownRoom(h, rooms) ==
  /\ parseHash(h).type = "room"
  /\ findRoom(rooms, parseHash(h).repoName, 1) = 0

\* C10: a token room/<id> whose id matches no room leaves the avatar at the
\* lobby entry pose, at initial load and on every later hashchange
C10_UnknownRoomFallsBack ==
  [][/\ (phase = "boot" /\ phase' = "running" /\ UnknownRoom(hash, roomMeta'))
          => pos' = teleportToLobby(CONFIG)
     /\ (phase = "running" /\ hash' # hash /\ UnknownRoom(hash', roomMeta))
          => pos' = teleportToLobby(CONFIG)]_vars

\* the serialization of the current room k, 0 for none
TokenOf(k, rooms) ==
  IF k = 0 THEN setHash("lobby", <<>>)
  ELSE setHash("room", rooms[k].repoName)

\* C11: a step that changes the current room leaves the hash equal to the
\* serialization of the new current room, and the write moves nobody: a
\* locked frame leaves the avatar where its last substep put it, and the
\* position otherwise changes only in a step where the user navigated
\* (hashchange without a frame, directory selection, initial load)
C11_TokenFollowsRoom ==
  [][/\ (phase = "running" /\ currentRoom' # currentRoom)
          => hash' = TokenOf(currentRoom', roomMeta')
     /\ (phase = "running" /\ frames' # frames /\ path' # <<>>)
          => pos' = path'[Len(path')]
     /\ (phase = "running" /\ pos' # pos)
          => \/ frames' # frames
             \/ directory' # directory
             \/ hash' # hash]_vars

\* a locked frame has walked the avatar out of room 1 and the token reads
\* lobby
C11_Witness ==
  /\ phase = "running" /\ path # <<>>
  /\ InRoom(1, path[1])
  /\ pos = path[Len(path)]
  /\ getPlayerRoom(pos, roomMeta, cfg) = 0
  /\ currentRoom = 0
  /\ hash = setHash("lobby", <<>>)

----------------------------------------------------------------------------
(* Teleports in isolation: every item list up to MaxRooms, rooms of three  *)
(* widths, reached through the room directory                              *)

InitTeleport == \E c \in CfgSet, rs \in AllRepoLists(LayoutStars) :
                  Boot(c, rs, <<>>)

NextTeleport ==
  \/ init
  \/ OpenDirectory
  \/ \E k \in 0..Len(roomMeta) : SelectDirectory(k)
  \/ CloseDirectory

SpecTeleport == InitTeleport /\ [][NextTeleport]_vars

\* the avatar stands where a teleport into room k put it
LandedIn(k) ==
  /\ phase = "running" /\ k # 0 /\ currentRoom = k
  /\ pos # teleportToLobby([CONFIG EXCEPT !.museum = cfg])

----------------------------------------------------------------------------
(* Collision resolver in isolation, on the collision boxes init() builds   *)

\* positions a substep can leave the avatar at: beside the lobby side wall
\* around the front column, and in the corridor at the edge of a doorway
ResolvePoints ==
  { [x |-> 110000 + 500 * i, z |-> 23000 + 500 * j] :
      i \in 0..12, j \in 0..17 }
  \cup { [x |-> 32000 + 1000 * i, z |-> -90000 + 1000 * j] :
           i \in 0..7, j \in 0..5 }

InitResolve == Boot(CONFIG.museum, MoveRepos, <<>>)

\* resolveCollisions called on p, then again on its own result
ResolveTwice(p) ==
  /\ phase = "running"
  /\ resolver' =
       [ p |-> p,
         once |-> resolveCollisions(p, wallBoxes, PLAYER_RADIUS),
         twice |-> resolveCollisions(
                     resolveCollisions(p, wallBoxes, PLAYER_RADIUS),
                     wallBoxes, PLAYER_RADIUS),
         done |-> TRUE ]
  /\ UNCHANGED <<phase, cfg, repos, roomMeta, wallBoxes, pos, velocity, yaw,
                 isLocked, currentRoom, hash, loadStarts, frames, router,
                 sizing, probe, directory, path, trace,
                 isMobile>>

NextResolve == init \/ \E p \in ResolvePoints : ResolveTwice(p)

SpecResolve == InitResolve /\ [][NextResolve]_vars

\* C13: resolving an already resolved position moves it by less than a
\* small epsilon (0.01 of a unit here) on either axis
C13_Idempotent ==
  resolver.done =>
    /\ Abs(resolver.twice.x - resolver.once.x) <= 100
    /\ Abs(resolver.twice.z - resolver.once.z) <= 100

----------------------------------------------------------------------------
(* One frame of loop() statement by statement.  The handlers of a page run *)
(* to completion, so nothing interleaves with these steps; they exist to   *)
(* expose the order of the statements inside a frame                       *)

\* a variant of loop() that detects the room before culling
stepAfterDetectFirst(last) ==
  CASE last = "render" -> "move"
    [] last = "move" -> "locality"
    [] last = "locality" -> "cull"
    [] last = "cull" -> "render"

\* the statement of loop() that follows each statement: the substep loop,
\* updateRoomVisibility, getPlayerRoom with the currentRoom update, then
\* renderer.render
stepAfter(last) ==
  CASE last = "render" -> "move"
    [] last = "move" -> "cull"
    [] last = "cull" -> "locality"
    [] last = "locality" -> "render"

\* the kind of the last statement run: every substep entry counts as "move"
LastStep ==
  IF trace = <<>> THEN "render"
  ELSE IF trace[Len(trace)] \in {"integrate", "resolve"} THEN "move"
  ELSE trace[Len(trace)]

\* controls.updateMovement, then resolveCollisions if the pointer is locked,
\* once per substep
RECURSIVE substepTrace(_, _)
substepTrace(n, locked) ==
  IF n = 0 THEN <<>>
  ELSE (IF locked THEN <<"integrate", "resolve">> ELSE <<"integrate">>)
       \o substepTrace(n - 1, locked)

\* the substep loop; updateMovement returns at once while unlocked
StepMove(deltaMs, k) ==
  /\ phase = "running"
  /\ stepAfter(LastStep) = "move"
  /\ isLocked => frames < MaxFrames
  /\ LET st0 == [pos |-> pos, velocity |-> velocity, yaw |-> yaw]
         trail == IF isLocked THEN moveFrame(st0, k, deltaMs, wallBoxes)
                  ELSE <<>>
     IN  /\ pos' = IF trail = <<>> THEN pos ELSE trail[Len(trail)].pos
         /\ velocity' = IF trail = <<>> THEN velocity
                        ELSE trail[Len(trail)].velocity
         /\ path' = IF trail = <<>> THEN path
                    ELSE <<pos>> \o [i \in 1..Len(trail) |-> trail[i].pos]
  /\ trace' = substepTrace(stepsOf(deltaMs, CONFIG.player), isLocked)
  /\ frames' = IF isLocked THEN frames + 1 ELSE frames
  /\ UNCHANGED <<phase, cfg, repos, roomMeta, wallBoxes, yaw, isLocked,
                 currentRoom, hash, loadStarts, router, sizing, probe,
                 directory, resolver, isMobile>>

\* updateRoomVisibility(getPlayerPos(), roomMeta, 35)
StepCull ==
  /\ phase = "running"
  /\ trace # <<>> /\ stepAfter(LastStep) = "cull"
  /\ roomMeta' = updateRoomVisibility(pos, roomMeta, 35)
  /\ trace' = Append(trace, "cull")
  /\ UNCHANGED <<phase, cfg, repos, wallBoxes, pos, velocity, yaw, isLocked,
                 currentRoom, hash, loadStarts, frames, router, sizing,
                 probe, directory, path, resolver, isMobile>>

\* room entry detection
StepDetect ==
  /\ phase = "running"
  /\ trace # <<>> /\ stepAfter(LastStep) = "locality"
  /\ LET detectedRoom == getPlayerRoom(pos, roomMeta, cfg)
     IN  IF detectedRoom # currentRoom
         THEN /\ currentRoom' = detectedRoom
              /\ IF detectedRoom # 0
                 THEN /\ hash' = setHash("room",
                                         roomMeta[detectedRoom].repoName)
                      /\ roomMeta' = enterRoom(roomMeta, detectedRoom)
                      /\ loadStarts' = countLoad(roomMeta, detectedRoom,
                                                 loadStarts)
                 ELSE /\ hash' = setHash("lobby", <<>>)
                      /\ UNCHANGED <<roomMeta, loadStarts>>
         ELSE UNCHANGED <<currentRoom, hash, roomMeta, loadStarts>>
  /\ trace' = Append(trace, "locality")
  /\ UNCHANGED <<phase, cfg, repos, wallBoxes, pos, velocity, yaw, isLocked,
                 frames, router, sizing, probe, directory, path, resolver,
                 isMobile>>

\* renderer.render(scene, camera)
StepRender ==
  /\ phase = "running"
  /\ trace # <<>> /\ stepAfter(LastStep) = "render"
  /\ trace' = Append(trace, "render")
  /\ UNCHANGED <<phase, cfg, repos, roomMeta, wallBoxes, pos, velocity, yaw,
                 isLocked, currentRoom, hash, loadStarts, frames, router,
                 sizing, probe, directory, path, resolver, isMobile>>

InitFrame == \E h \in MoveHashes : Boot(CONFIG.museum, MoveRepos, h)

NextFrame ==
  \/ init
  \/ Lock
  \/ Unlock
  \/ \E deltaMs \in NavDeltas, k \in MoveKeys : StepMove(deltaMs, k)
  \/ StepCull
  \/ StepDetect
  \/ StepRender

SpecFrame == InitFrame /\ [][NextFrame]_vars

\* the positions of a step name in the trace
IndexOf(name) == {i \in 1..Len(trace) : trace[i] = name}

FrameRendered == trace # <<>> /\ trace[Len(trace)] = "render"

\* C14 as stated: in a rendered frame the locality detector has run before
\* the visibility culler
C14_LocalityBeforeCull ==
  FrameRendered =>
    \A i \in IndexOf("locality"), j \in IndexOf("cull") : i < j

\* C14 amended: in a rendered frame every resolver run follows an
\* integration of the same substep, the culler runs once after all
\* substeps, the locality detector runs once after the culler, and render
\* comes last
C14_CullBeforeLocality ==
  FrameRendered =>
    LET n == Len(trace)
    IN  /\ n >= 4
        /\ trace[n] = "render"
        /\ trace[n - 1] = "locality"
        /\ trace[n - 2] = "cull"
        /\ \A i \in 1..(n - 3) :
             /\ trace[i] \in {"integrate", "resolve"}
             /\ trace[i] = "resolve" => i > 1 /\ trace[i - 1] = "integrate"

\* a rendered frame in which the detector moved the current room
C14_Witness ==
  /\ FrameRendered
  /\ "resolve" \in {trace[i] : i \in 1..Len(trace)}
  /\ path # <<>> /\ InRoom(1, path[1])
  /\ currentRoom = 0

\* roomMeta with the visible flags replaced by the set of shown rooms
WithFlags(rooms, shown) ==
  [k \in 1..Len(rooms) |-> [rooms[k] EXCEPT !.visible = (k \in shown)]]

\* planar distance test of the culler, in hundredths of a unit
Near(p, rm, R) ==
  LET dx == RoundDiv(rm.position.x - p.x, 100)
      dz == RoundDiv(rm.position.z - p.z, 100)
  IN  dx * dx + dz * dz < (R * 100) * (R * 100)

CullStep == trace' # trace /\ trace' # <<>> /\ trace'[Len(trace')] = "cull"

\* C15: the culler sets each room's visible flag to dx^2 + dz^2 < 35^2 and
\* changes nothing else; the wall boxes stay as built and getPlayerRoom
\* returns the same room for every assignment of visible flags
C15_CullerOnlyFlags ==
  /\ [](phase = "running" =>
          /\ wallBoxes = collectWallBoxes(
                           buildLobby([CONFIG EXCEPT !.museum = cfg])
                           \o buildMuseum(repos, cfg).meshes)
          /\ \A shown \in SUBSET (1..Len(roomMeta)) :
               getPlayerRoom(pos, WithFlags(roomMeta, shown), cfg)
                 = getPlayerRoom(pos, roomMeta, cfg))
  /\ [][CullStep =>
          /\ Len(roomMeta') = Len(roomMeta)
          /\ \A k \in 1..Len(roomMeta) :
               roomMeta'[k] = [roomMeta[k] EXCEPT
                                 !.visible = Near(pos, roomMeta[k], 35)]
          /\ UNCHANGED <<wallBoxes, pos, velocity, yaw, currentRoom, hash,
                         loadStarts>>
          /\ getPlayerRoom(pos', roomMeta', cfg)
               = getPlayerRoom(pos, roomMeta, cfg)]_vars

\* the culler has just hidden one room and kept another shown
C15_Witness ==
  /\ trace # <<>> /\ trace[Len(trace)] = "cull"
  /\ \E k \in 1..Len(roomMeta) : ~roomMeta[k].visible
  /\ \E k \in 1..Len(roomMeta) : roomMeta[k].visible

----------------------------------------------------------------------------
(* The resolver on a single box of zero extent                             *)

\* boxes around the origin with zero extent in x, in z, and in both
DegenerateBoxes ==
  { Mesh(0, 0, w, d, TRUE, "degenerate", 0) :
      w \in {0, 20000}, d \in {0, 20000} }
  \ { Mesh(0, 0, 20000, 20000, TRUE, "degenerate", 0) }

DegeneratePoints ==
  { [x |-> 1000 * i, z |-> 1000 * j] : i \in -4..4, j \in 8..14 }
  \cup { [x |-> 1000 * j, z |-> 1000 * i] : i \in -4..4, j \in 8..14 }
  \cup { [x |-> 0, z |-> 0], [x |-> 50, z |-> 0], [x |-> 0, z |-> -50] }

IsDegenerate(box) == box.minX = box.maxX \/ box.minZ = box.maxZ

InitDegenerate ==
  /\ phase = "pure"
  /\ cfg = CONFIG.museum
  /\ repos = <<>>
  /\ roomMeta = <<>>
  /\ \E box \in DegenerateBoxes : wallBoxes = <<box>>
  /\ pos = SpawnPos
  /\ velocity = [x |-> 0, z |-> 0]
  /\ yaw = 0
  /\ isLocked = FALSE
  /\ currentRoom = 0
  /\ hash = <<>>
  /\ loadStarts = <<>>
  /\ frames = 0
  /\ router = IdleRouter
  /\ sizing = IdleSizing
  /\ probe = IdleProbe
  /\ directory = FALSE
  /\ path = <<>>
  /\ resolver = IdleResolver
  /\ trace = <<>>
  /\ isMobile = FALSE

\* resolveCollisions(p, boxes, PLAYER_RADIUS) on the boxes at hand
Resolve(p) ==
  /\ phase = "pure"
  /\ resolver' =
       [ p |-> p,
         once |-> resolveCollisions(p, wallBoxes, PLAYER_RADIUS),
         twice |-> resolveCollisions(
                     resolveCollisions(p, wallBoxes, PLAYER_RADIUS),
                     wallBoxes, PLAYER_RADIUS),
         done |-> TRUE ]
  /\ UNCHANGED <<phase, cfg, repos, roomMeta, wallBoxes, pos, velocity, yaw,
                 isLocked, currentRoom, hash, loadStarts, frames, router,
                 sizing, probe, directory, path, trace,
                 isMobile>>

NextDegenerate == \E p \in DegeneratePoints : Resolve(p)

SpecDegenerate == InitDegenerate /\ [][NextDegenerate]_vars

\* C16: a box of zero extent in x and/or z leaves every position it is
\* resolved against unchanged
C16_DegenerateNoOp ==
  (resolver.done /\ \A i \in 1..Len(wallBoxes) : IsDegenerate(wallBoxes[i]))
    => resolver.once = resolver.p

----------------------------------------------------------------------------
(* Content loading under fair scheduling.  requestAnimationFrame           *)
(* reschedules loop() in every frame, so frames keep coming; the fetch     *)
(* helpers pass no timeout or abort signal, so nothing in the program      *)
(* makes a pending fetch settle                                            *)

\* loop() while the pointer is not locked: updateMovement returns at once
\* and the resolver is skipped, the rest of the frame runs
IdleFrame ==
  /\ phase = "running"
  /\ ~isLocked
  /\ FrameTail([pos |-> pos, velocity |-> velocity, yaw |-> yaw], <<>>)
  /\ UNCHANGED <<phase, cfg, repos, wallBoxes, yaw, isLocked, frames, router,
                 sizing, probe, directory, resolver, trace, isMobile>>

NextLive ==
  \/ init
  \/ IdleFrame
  \/ OpenDirectory
  \/ \E k \in 0..Len(roomMeta) : SelectDirectory(k)
  \/ CloseDirectory
  \/ \E h \in NavHashes : HashChange(h)
  \/ \E k \in 1..Len(roomMeta), r \in Outcomes, t \in Outcomes,
          c \in Outcomes : FetchComplete(k, r, t, c)

SpecLive == Init /\ [][NextLive]_vars /\ WF_vars(IdleFrame)

PlaceholderShown(k) ==
  k <= Len(roomMeta) /\ roomMeta[k].panel = "loading"

\* C17: once loadRoomContent has started for a room, its README panel
\* eventually leaves the loading placeholder, whether or not the fetch
\* responds
C17_PlaceholderLeaves ==
  \A k \in 1..MaxRooms : PlaceholderShown(k) ~> ~PlaceholderShown(k)

Failed(outcome) == outcome \in {"notok", "throws"}

\* C18: when a content request fails, loadRoomContent does not reject and
\* the panel of that request shows its not-found placeholder
C18_FailureShowsPlaceholder ==
  \A k \in 1..Len(roomMeta) :
    LET rm == roomMeta[k]
    IN  /\ rm.fetch # "rejected"
        /\ rm.fetch = "done" =>
             /\ Failed(rm.fetched.readme) => rm.panel = "notfound"
             /\ Failed(rm.fetched.tree) => rm.filePanel = "nofiles"
             /\ Failed(rm.fetched.commits) => rm.commitPanel = "notfound"

----------------------------------------------------------------------------
(* init() on item lists with missing fields                                *)

\* item k with or without a name and a star count
Item(k, hasName, hasStars) ==
  [Repo(k, hasStars, 3) EXCEPT !.hasName = hasName]

ItemLists ==
  UNION { { [k \in 1..n |-> Item(k, f[k][1], f[k][2])] :
              f \in [1..n -> BOOLEAN \X BOOLEAN] } : n \in 0..MaxRooms }

InitItems == \E rs \in ItemLists : Boot(CONFIG.museum, rs, <<>>)

NextItems == init \/ IdleFrame

SpecItems == InitItems /\ [][NextItems]_vars

\* the corridor of a museum of n rooms: an end cap and side walls
ValidCorridor ==
  /\ \E i \in 1..Len(wallBoxes) : wallBoxes[i].tag = "endCap"
  /\ \A side \in {1, -1} :
       \E i \in 1..Len(wallBoxes) :
         IsHallSeg(wallBoxes[i]) /\ BoxSide(wallBoxes[i]) = side

\* C19: for the empty list and for lists with items that lack fields,
\* init does not fail and leaves a corridor with end cap and side walls
C19_NeverFatal ==
  /\ phase # "failed"
  /\ phase = "running" => ValidCorridor

\* C20: parseHash returns lobby or room with a non-empty id for every hash
\* the page is given, and no navigation token aborts init
C20_ParseTotal ==
  phase # "boot" =>
    /\ parseHash(hash).type \in {"lobby", "room"}
    /\ parseHash(hash).type = "room" => parseHash(hash).repoName # <<>>
    /\ phase # "failed"

----------------------------------------------------------------------------
(* Walking through a doorway: the avatar stands at the centre of a doorway *)
(* gap, faces the room and holds W                                         *)

DoorDeltas == {200, 300, 500, 1000}

\* W held, walking and running
DoorKeys == { KeyState(0, -1, FALSE), KeyState(0, -1, TRUE) }

SideOfRoom(rm) == IF rm.position.x > 0 THEN 1 ELSE -1

DoorCentre(rm) ==
  [ x |-> SideOfRoom(rm) * CONFIG.museum.hallWidth,
    y |-> CONFIG.player.height,
    z |-> rm.position.z ]

\* the gallery as init() leaves it for MoveRepos, the avatar walked to the
\* doorway of room k with the pointer locked
InitDoorway ==
  \E k \in 1..Len(MoveRepos) :
    LET museum == buildMuseum(MoveRepos, CONFIG.museum)
    IN  /\ phase = "running"
        /\ cfg = CONFIG.museum
        /\ repos = MoveRepos
        /\ roomMeta = museum.roomMeta
        /\ wallBoxes = collectWallBoxes(buildLobby(CONFIG) \o museum.meshes)
        /\ pos = DoorCentre(museum.roomMeta[k])
        /\ velocity = [x |-> 0, z |-> 0]
        /\ yaw = teleportToRoom(museum.roomMeta[k], CONFIG).yaw
        /\ isLocked = TRUE
        /\ currentRoom = 0
        /\ hash = <<>>
        /\ loadStarts = [i \in 1..Len(MoveRepos) |-> 0]
        /\ frames = 0
        /\ router = IdleRouter
        /\ sizing = IdleSizing
        /\ probe = IdleProbe
        /\ directory = FALSE
        /\ path = <<>>
        /\ resolver = IdleResolver
        /\ trace = <<>>
        /\ isMobile = FALSE

NextDoorway == \E deltaMs \in DoorDeltas, k \in DoorKeys : Frame(deltaMs, k)

SpecDoorway == InitDoorway /\ [][NextDoorway]_vars

\* the room whose doorway line z = slotZ the avatar is on
DoorRoom == CHOOSE k \in 1..Len(roomMeta) : roomMeta[k].position.z = pos.z

\* p is no closer than one radius to the inner face of the outer side wall
ClearOfOuterWall(p, rm) ==
  Abs(p.x) + PLAYER_RADIUS
    <= Abs(rm.position.x) + rm.rw \div 2 - WALL_T \div 2

\* the frame just run, replayed with inputs deltaMs and k and no boxes
FreeTrail(deltaMs, k) ==
  moveFrame([pos |-> pos, velocity |-> velocity, yaw |-> yaw], k, deltaMs,
            <<>>)

\* the step is a frame whose inputs were deltaMs and k: the substep count
\* and the smoothed velocity, which the resolver never touches, tell
IsFrameWith(deltaMs, k) ==
  /\ frames' # frames
  /\ Len(path') = 1 + Len(FreeTrail(deltaMs, k))
  /\ velocity' = FreeTrail(deltaMs, k)[Len(FreeTrail(deltaMs, k))].velocity

----------------------------------------------------------------------------
(* Desktop and touch devices side by side: movement and teleports          *)

\* W with Shift, and nothing held
EyeKeys == { KeyState(0, -1, TRUE), KeyState(0, 0, FALSE) }

\* thumb fully forward, half forward, fully right, and released
EyeJoys == { JoyState(0, -60), JoyState(0, -30), JoyState(60, 0),
             JoyState(0, 0) }

InputsOf(mobile) == IF mobile THEN EyeJoys ELSE EyeKeys

InitEye ==
  \E mobile \in BOOLEAN, h \in {<<>>, setHash("room", RepoNames[1])} :
    BootDevice(CONFIG.museum, MoveRepos, h, mobile)

NextEye ==
  \/ init
  \/ Lock
  \/ Unlock
  \/ \E deltaMs \in NavDeltas, k \in InputsOf(isMobile) : Frame(deltaMs, k)
  \/ \E h \in {setHash("lobby", <<>>), setHash("room", RepoNames[2])} :
       HashChange(h)

SpecEye == InitEye /\ [][NextEye]_vars

\* C22: the avatar is at eye height in every state, and was after every
\* substep of the last frame
C22_EyeHeight ==
  /\ pos.y = CONFIG.player.height
  /\ \A i \in 1..Len(path) : path[i].y = CONFIG.player.height

\* a touch device has moved the avatar after a teleport into a room
C22_Witness ==
  /\ isMobile
  /\ hash = setHash("room", RepoNames[2])
  /\ path # <<>> /\ path[1] # pos
  /\ pos.y = CONFIG.player.height

----------------------------------------------------------------------------
(* The resolver on a single box with the avatar centre inside it           *)

\* a square box and an oblong one, centred at the origin
InsideBoxes ==
  { Mesh(0, 0, 20000, 20000, TRUE, "inside", 0),
    Mesh(0, 0, 20000, 40000, TRUE, "inside", 0) }

InsidePoints ==
  { [x |-> 2500 * i, z |-> 2500 * j] : i \in -4..4, j \in -4..4 }

InitInside ==
  /\ phase = "pure"
  /\ cfg = CONFIG.museum
  /\ repos = <<>>
  /\ roomMeta = <<>>
  /\ \E box \in InsideBoxes : wallBoxes = <<box>>
  /\ pos = SpawnPos
  /\ velocity = [x |-> 0, z |-> 0]
  /\ yaw = 0
  /\ isLocked = FALSE
  /\ currentRoom = 0
  /\ hash = <<>>
  /\ loadStarts = <<>>
  /\ frames = 0
  /\ router = IdleRouter
  /\ sizing = IdleSizing
  /\ probe = IdleProbe
  /\ directory = FALSE
  /\ path = <<>>
  /\ resolver = IdleResolver
  /\ trace = <<>>
  /\ isMobile = FALSE

NextInside == \E p \in InsidePoints : Resolve(p)

SpecInside == InitInside /\ [][NextInside]_vars

\* the translation along x, and along z, that takes p to one radius beyond
\* the nearer face of the box
ClearX(p, box) ==
  (box.maxX - box.minX) \div 2 + PLAYER_RADIUS
    - Abs(p.x - (box.minX + box.maxX) \div 2)

ClearZ(p, box) ==
  (box.maxZ - box.minZ) \div 2 + PLAYER_RADIUS
    - Abs(p.z - (box.minZ + box.maxZ) \div 2)

CentreInside(p, box) ==
  /\ p.x >= box.minX /\ p.x <= box.maxX
  /\ p.z >= box.minZ /\ p.z <= box.maxZ

PushedAlongX(box) ==
  /\ Abs(resolver.once.x - resolver.p.x) = ClearX(resolver.p, box)
  /\ resolver.once.z = resolver.p.z

PushedAlongZ(box) ==
  /\ Abs(resolver.once.z - resolver.p.z) = ClearZ(resolver.p, box)
  /\ resolver.once.x = resolver.p.x

\* C23 as stated: a centre inside the box is pushed along the axis of the
\* smaller translation, along x when the two are equal
C23_TieToX ==
  (resolver.done /\ CentreInside(resolver.p, wallBoxes[1])) =>
    IF ClearX(resolver.p, wallBoxes[1]) <= ClearZ(resolver.p, wallBoxes[1])
    THEN PushedAlongX(wallBoxes[1])
    ELSE PushedAlongZ(wallBoxes[1])

\* C23 amended: a centre inside the box is pushed along the axis of the
\* smaller translation, along z when the two are equal
C23_TieToZ ==
  (resolver.done /\ CentreInside(resolver.p, wallBoxes[1])) =>
    IF ClearX(resolver.p, wallBoxes[1]) < ClearZ(resolver.p, wallBoxes[1])
    THEN PushedAlongX(wallBoxes[1])
    ELSE PushedAlongZ(wallBoxes[1])

\* a centre inside the box with equal translations has been resolved
C23_Witness ==
  /\ resolver.done
  /\ CentreInside(resolver.p, wallBoxes[1])
  /\ ClearX(resolver.p, wallBoxes[1]) = ClearZ(resolver.p, wallBoxes[1])
  /\ resolver.once # resolver.p

----------------------------------------------------------------------------
(* Substep size: the loop's subdivision of a frame against the speed cap   *)

\* frame times in milliseconds: two substeps of almost the longest length,
\* and a stalled tab
StepDeltas == {53, 1000}

\* W and D with Shift (a diagonal run), W with Shift, nothing held
StepKeys == { KeyState(1, -1, TRUE), KeyState(0, -1, TRUE),
              KeyState(0, 0, FALSE) }

\* thumb at the rim diagonally, at the rim forward, and released
StepJoys == { JoyState(36, -48), JoyState(0, -60), JoyState(0, 0) }

StepInputs(mobile) == IF mobile THEN StepJoys ELSE StepKeys

InitStep ==
  \E mobile \in BOOLEAN, h \in {<<>>, setHash("room", RepoNames[1])} :
    BootDevice(CONFIG.museum, MoveRepos, h, mobile)

NextStep ==
  \/ init
  \/ Lock
  \/ Unlock
  \/ \E deltaMs \in StepDeltas, k \in StepInputs(isMobile) : Frame(deltaMs, k)

SpecStep == InitStep /\ [][NextStep]_vars

\* CONFIG.player.speed * CONFIG.player.runMultiplier, in mm/s
maxPossibleSpeed == (CONFIG.player.speed * CONFIG.player.runMultiplier10) \div 10

SqLen(dx, dz) == dx * dx + dz * dz

\* the state a substep starts from: the avatar before the frame, or the
\* state the substep before it left
BeforeSubstep(st0, trail, i) == IF i = 1 THEN st0 ELSE trail[i - 1]

\* C24: whatever frame comes next, it is cut into ceil(dt / (radius /
\* maxPossibleSpeed)) substeps, none longer than radius / maxPossibleSpeed;
\* in each of them the smoothed velocity stays within maxPossibleSpeed and
\* the integrator moves the avatar, before the resolver runs, by no more
\* than the radius (both up to one unit of the fixed-point grid)
C24_SubstepWithinRadius ==
  (phase = "running" /\ isLocked) =>
    \A deltaMs \in StepDeltas, k \in StepInputs(isMobile) :
      LET st0 == [pos |-> pos, velocity |-> velocity, yaw |-> yaw]
          trail == moveFrame(st0, k, deltaMs, wallBoxes)
          steps == Len(trail)
          subUs == RoundDiv(deltaMs * 1000, steps)
      IN  /\ steps * PLAYER_RADIUS * 100 >= deltaMs * maxPossibleSpeed
          /\ (steps - 1) * PLAYER_RADIUS * 100 < deltaMs * maxPossibleSpeed
          /\ subUs * maxPossibleSpeed <= PLAYER_RADIUS * 100000
          /\ \A i \in 1..steps :
               LET moved == integrate(BeforeSubstep(st0, trail, i), k, subUs,
                                      CONFIG.player)
               IN  /\ moved.velocity = trail[i].velocity
                   /\ SqLen(moved.velocity.x, moved.velocity.z)
                        <= (maxPossibleSpeed + 1) * (maxPossibleSpeed + 1)
                   /\ SqLen(moved.pos.x - BeforeSubstep(st0, trail, i).pos.x,
                            moved.pos.z - BeforeSubstep(st0, trail, i).pos.z)
                        <= (PLAYER_RADIUS + 1) * (PLAYER_RADIUS + 1)

\* the avatar runs diagonally at the speed cap after a frame of several
\* substeps
C24_Witness ==
  /\ phase = "running"
  /\ isLocked
  /\ Len(path) > 1
  /\ velocity.x # 0
  /\ velocity.z # 0
  /\ SqLen(velocity.x, velocity.z)
       >= (maxPossibleSpeed - 5) * (maxPossibleSpeed - 5)

----------------------------------------------------------------------------
(* Keyboard and joystick integrators against one smoothing rule            *)

\* the target velocity of an input: the normalised key direction, or the
\* thumb offset over joystickMaxRadius, at walking or running speed; zero
\* when nothing is held or the thumb is inside the deadzone
TargetFor(k, player) ==
  IF IsJoystick(k)
  THEN LET distSq == k.joyX * k.joyX + k.joyY * k.joyY
           moveSpeed == IF 16 * distSq > 9 * joystickMaxRadius * joystickMaxRadius
                        THEN (player.speed * player.runMultiplier10) \div 10
                        ELSE player.speed
       IN  IF distSq > joystickDeadzone * joystickDeadzone
           THEN [x |-> RoundDiv(k.joyX * moveSpeed, joystickMaxRadius),
                 z |-> RoundDiv(k.joyY * moveSpeed, joystickMaxRadius)]
           ELSE [x |-> 0, z |-> 0]
  ELSE [x |-> targetOf(k.inputX, k.inputZ, moveSpeedOf(k, player)),
        z |-> targetOf(k.inputZ, k.inputX, moveSpeedOf(k, player))]

\* v += (target - v) * min(1, damping * dt), up to one unit of rounding
SmoothedToward(v0, v1, target, subUs, player) ==
  LET t == Min(10000, RoundDiv(player.damping * subUs, 100))
  IN  /\ Abs(v1.x - (v0.x + RoundDiv((target.x - v0.x) * t, 10000))) <= 1
      /\ Abs(v1.z - (v0.z + RoundDiv((target.z - v0.z) * t, 10000))) <= 1

\* position += v * dt in the camera's frame, with the velocity just computed
AdvancedBy(st, after, subUs) ==
  LET right == RoundDiv(after.velocity.x * subUs, 100000)
      forward == RoundDiv((-after.velocity.z) * subUs, 100000)
  IN  /\ after.pos.x = st.pos.x + RightX(st.yaw) * right
                         + ForwardX(st.yaw) * forward
      /\ after.pos.z = st.pos.z + RightZ(st.yaw) * right
                         + ForwardZ(st.yaw) * forward

\* C25: on desktop and on a touch device alike, every locked substep of
\* whatever frame comes next smooths the velocity toward the input's target
\* and then advances the position by velocity * dt, also when the input is
\* released
C25_SameIntegrator ==
  (phase = "running" /\ isLocked) =>
    \A deltaMs \in NavDeltas, k \in InputsOf(isMobile) :
      LET st0 == [pos |-> pos, velocity |-> velocity, yaw |-> yaw]
          trail == moveFrame(st0, k, deltaMs, <<>>)
          subUs == RoundDiv(deltaMs * 1000, Len(trail))
      IN  \A i \in 1..Len(trail) :
            /\ SmoothedToward(BeforeSubstep(st0, trail, i).velocity,
                              trail[i].velocity, TargetFor(k, CONFIG.player),
                              subUs, CONFIG.player)
            /\ AdvancedBy(BeforeSubstep(st0, trail, i), trail[i], subUs)

----------------------------------------------------------------------------
(* Collision extraction over every layout of up to MaxRooms rooms          *)

\* rooms of the base width and of the capped width
ExtractStars == {<<FALSE, 0>>, <<TRUE, 100000>>}

InitExtract ==
  \E rs \in AllRepoLists(ExtractStars) : Boot(CONFIG.museum, rs, <<>>)

NextExtract ==
  \/ init
  \/ Lock
  \/ Unlock
  \/ \E k \in {KeyState(0, -1, TRUE)} : Frame(300, k)
  \/ OpenDirectory
  \/ CloseDirectory
  \/ HashChange(setHash("lobby", <<>>))

SpecExtract == InitExtract /\ [][NextExtract]_vars

\* every mesh init() traverses: the lobby, then the museum
SceneMeshes ==
  buildLobby([CONFIG EXCEPT !.museum = cfg]) \o buildMuseum(repos, cfg).meshes

\* the kinds of element that are meant to block the avatar
BlockingKinds ==
  { "back", "outer", "front", "innerRear", "innerFront", "hall", "endCap",
    "lobbyBack", "lobbySide", "lobbyFront", "column" }

\* those that are not
PassableKinds ==
  { "lintel", "lobbyLintel", "portal", "sign", "panel", "floor", "ceiling" }

Occurrences(seq, x) == Cardinality({ i \in DOMAIN seq : seq[i] = x })

\* C26: once the gallery runs, wallBoxes holds exactly one box for each
\* room wall, inner-wall segment, hallway segment, end cap, lobby wall and
\* column of the scene and nothing for a lintel, portal plane, sign, panel,
\* floor or ceiling; and no step changes the list after it was built
C26_OneBoxPerBlockingElement ==
  /\ [](phase = "running" =>
          /\ \A i \in DOMAIN SceneMeshes :
               /\ SceneMeshes[i].tag \in BlockingKinds \cup PassableKinds
               /\ Occurrences(wallBoxes, SceneMeshes[i])
                    = IF SceneMeshes[i].tag \in BlockingKinds THEN 1 ELSE 0
          /\ \A j \in DOMAIN wallBoxes :
               Occurrences(SceneMeshes, wallBoxes[j]) = 1)
  /\ [][phase = "running" => wallBoxes' = wallBoxes]_vars

\* a two-room gallery in which the avatar has moved: its list has boxes,
\* and the scene has lintels, signs and panels without one
C26_Witness ==
  /\ phase = "running"
  /\ Len(repos) >= 2
  /\ frames > 0
  /\ path # <<>>
  /\ \E i \in DOMAIN SceneMeshes : SceneMeshes[i].tag = "sign"
  /\ \E i \in DOMAIN SceneMeshes : SceneMeshes[i].tag = "lintel"
  /\ \E j \in DOMAIN wallBoxes : wallBoxes[j].tag = "column"
  /\ \E j \in DOMAIN wallBoxes : wallBoxes[j].tag = "innerRear"

----------------------------------------------------------------------------
(* Landing poses: a base-width room on the +x side and a capped-width room *)
(* on the -x side, entered through the directory, then frames              *)

\* nothing held, and W with Shift
LandKeys == { KeyState(0, 0, FALSE), KeyState(0, -1, TRUE) }

InitLand == Boot(CONFIG.museum, MoveRepos, <<>>)

NextLand ==
  \/ init
  \/ OpenDirectory
  \/ \E k \in 0..Len(roomMeta) : SelectDirectory(k)
  \/ CloseDirectory
  \/ \E k \in LandKeys : Frame(300, k)

SpecLand == InitLand /\ [][NextLand]_vars

\* the avatar stands exactly where teleportToRoom puts it for room k
AtLandingPose(k) ==
  /\ phase = "running"
  /\ k \in 1..Len(roomMeta)
  /\ pos = teleportToRoom(roomMeta[k], [CONFIG EXCEPT !.museum = cfg]).pos

\* the nearest point of box b is at least one radius from p
ClearOfBox(p, b) ==
  LET dx == p.x - Max(b.minX, Min(p.x, b.maxX))
      dz == p.z - Max(b.minZ, Min(p.z, b.maxZ))
  IN  \/ Abs(dx) >= PLAYER_RADIUS
      \/ Abs(dz) >= PLAYER_RADIUS
      \/ SqLen(dx, dz) >= PLAYER_RADIUS * PLAYER_RADIUS

\* C27: the landing pose of every room is side * (hallWidth + 1.5) at
\* slotZ, strictly inside the room's rectangle and at least one radius from
\* every collision box; getPlayerRoom returns the room there, the resolver
\* leaves the pose alone, and in the frame that follows, standing or walking
\* on, the resolver never displaces the avatar and the room stays current
C27_LandingPoseStable ==
  /\ [](\A k \in 1..Len(roomMeta) :
          AtLandingPose(k) =>
            LET rm == roomMeta[k]
                side == sideOf(k - 1)
                st0 == [pos |-> pos, velocity |-> velocity, yaw |-> yaw]
            IN  /\ pos.x = side * (cfg.hallWidth + 15000)
                /\ pos.z = slotZOf(k - 1, cfg.hallLength)
                /\ 2 * pos.x > 2 * rm.position.x - rm.rw
                /\ 2 * pos.x < 2 * rm.position.x + rm.rw
                /\ 2 * pos.z > 2 * rm.position.z - cfg.roomDepth
                /\ 2 * pos.z < 2 * rm.position.z + cfg.roomDepth
                /\ \A j \in DOMAIN wallBoxes :
                     ClearOfBox(pos, wallBoxes[j])
                /\ getPlayerRoom(pos, roomMeta, cfg) = k
                /\ resolveCollisions(pos, wallBoxes, PLAYER_RADIUS) = pos
                /\ \A key \in LandKeys :
                     /\ moveFrame(st0, key, 300, wallBoxes)
                          = moveFrame(st0, key, 300, <<>>)
                     /\ \A i \in DOMAIN moveFrame(st0, key, 300, wallBoxes) :
                          getPlayerRoom(
                            moveFrame(st0, key, 300, wallBoxes)[i].pos,
                            roomMeta, cfg) = k)
  /\ [][\A k \in 1..Len(roomMeta) :
          (AtLandingPose(k) /\ frames' # frames) => currentRoom' = k]_vars

\* the avatar was put into the second room through the directory and has
\* walked on from the landing pose in the frame that followed
C27_Witness ==
  /\ phase = "running"
  /\ Len(roomMeta) >= 2
  /\ hash = setHash("room", roomMeta[2].repoName)
  /\ currentRoom = 2
  /\ frames > 0
  /\ isLocked
  /\ path # <<>>
  /\ path[1] = teleportToRoom(roomMeta[2], CONFIG).pos
  /\ pos # path[1]

----------------------------------------------------------------------------
(* The room directory and the lock: keys, clicks and lock events           *)

InitOverlay ==
  \E mobile \in BOOLEAN, h \in {<<>>, setHash("room", RepoNames[1])} :
    BootDevice(CONFIG.museum, MoveRepos, h, mobile)

NextOverlay ==
  \/ init
  \/ Lock
  \/ Unlock
  \/ OpenDirectory
  \/ \E k \in 0..Len(roomMeta) : SelectDirectory(k)
  \/ CloseDirectory
  \/ ClickOverlay
  \/ \E k \in IF isMobile THEN {JoyState(0, -60)}
              ELSE {KeyState(0, -1, TRUE)} : Frame(300, k)

SpecOverlay == InitOverlay /\ [][NextOverlay]_vars

\* C28: the directory overlay is never visible while the controls are locked
C28_DirectoryNeverLocked == ~(directory /\ isLocked)

----------------------------------------------------------------------------
(* Culling against locality: three rooms, the third of the capped width    *)
(* and out of culling range of the lobby, entered on foot and by teleport  *)

CullRepos == << Repo(1, FALSE, 0), Repo(2, TRUE, 3), Repo(3, TRUE, 100000) >>

\* W and S held with Shift
CullKeys == { KeyState(0, -1, TRUE), KeyState(0, 1, TRUE) }

InitCull ==
  \E h \in {<<>>, setHash("room", RepoNames[3])} :
    Boot(CONFIG.museum, CullRepos, h)

NextCull ==
  \/ init
  \/ Lock
  \/ Unlock
  \/ \E deltaMs \in NavDeltas, k \in CullKeys : Frame(deltaMs, k)
  \/ \E h \in {setHash("lobby", <<>>), setHash("room", RepoNames[3])} :
       HashChange(h)

SpecCull == InitCull /\ [][NextCull]_vars

\* C29: in every state of the running gallery, so at the end of every frame
\* and after every teleport, the room whose rectangle contains the avatar
\* and the room recorded as current are shown
C29_ActiveRoomVisible ==
  phase = "running" =>
    /\ getPlayerRoom(pos, roomMeta, cfg) # 0 =>
         roomMeta[getPlayerRoom(pos, roomMeta, cfg)].visible
    /\ currentRoom # 0 => roomMeta[currentRoom].visible

\* the avatar has walked from the corridor into the third room in the last
\* frame, and the room is shown
C29_Witness ==
  /\ phase = "running"
  /\ currentRoom = 3
  /\ frames > 0
  /\ path # <<>>
  /\ getPlayerRoom(path[1], roomMeta, cfg) = 0
  /\ getPlayerRoom(pos, roomMeta, cfg) = 3
  /\ roomMeta[3].visible

----------------------------------------------------------------------------
(* Loaded flags and the README panel across entries and fetch completions  *)

\* C30: in every step, a room's readmeLoaded and fileTreeLoaded flags stay
\* true once true, and once loadRoomContent has started for the room its
\* README panel is never redrawn with the 'Loading README...' placeholder:
\* content or 'No README found' stays as drawn
C30_NoRegress ==
  [][\A k \in 1..Len(roomMeta) :
       /\ k \in 1..Len(roomMeta')
       /\ roomMeta[k].readmeLoaded => roomMeta'[k].readmeLoaded
       /\ roomMeta[k].fileTreeLoaded => roomMeta'[k].fileTreeLoaded
       /\ roomMeta[k].fetch # "idle" =>
            /\ roomMeta'[k].fetch # "idle"
            /\ roomMeta'[k].panel = "loading" => roomMeta[k].panel = "loading"
       /\ roomMeta[k].panel \in {"readme", "notfound"} =>
            roomMeta'[k].panel = roomMeta[k].panel]_vars

\* both rooms were entered and their loads have completed, one with a README
\* and one without; the avatar is in the first again after a frame
C30_Witness ==
  /\ phase = "running"
  /\ Len(roomMeta) = 2
  /\ roomMeta[1].panel = "readme"
  /\ roomMeta[2].panel = "notfound"
  /\ roomMeta[1].readmeLoaded /\ roomMeta[2].readmeLoaded
  /\ loadStarts = <<1, 1>>
  /\ currentRoom = 1
  /\ frames > 0

====
